---- MODULE Spec2Model ----
(***************************************************************************)
(* A model of pycoin's script tools (tx/script/tools.py) and signature     *)
(* checking opcodes (tx/script/check_signature.py).                        *)
(*                                                                         *)
(* Byte strings are sequences of 0..255.  A Python exception is the "exc"  *)
(* field of the record an operator returns ("none" when it returns         *)
(* normally).                                                              *)
(***************************************************************************)
EXTENDS Integers, Sequences, FiniteSets, TLC

VARIABLES
    phase,              \* which step of the run has been taken
    script,             \* the script being read by get_opcode
    pc,                 \* the cursor of the opcode_list loop
    token,              \* the record returned by the last get_opcode call
    data_list,          \* the argument of bin_script
    stack,              \* the evaluation stack (top is the last element)
    flags,              \* the verification flags (a set of flag bits)
    expected_hash_type, \* the caller's expected hash type, or None
    tmp_script,         \* the subscript as of the last code separator
    entry,              \* the stack on entry of the opcode handler
    outcome             \* what the opcode handler did

vars == <<phase, script, pc, token, data_list, stack, flags,
          expected_hash_type, tmp_script, entry, outcome>>

----------------------------------------------------------------------------
(* Bounds of the model *)

MaxScriptLen == 5
MaxPush == 2
MaxKeys == 3
MaxSigs == 2

----------------------------------------------------------------------------
(* Python helpers *)

Min(a, b) == IF a < b THEN a ELSE b

\* s[a:b] for 0 <= a <= b: the slice is clipped to the string, never an error
Slice(s, a, b) == SubSeq(s, a + 1, Min(b, Len(s)))

Fill(n, b) == [i \in 1..n |-> b]

RECURSIVE Concat(_)
Concat(ss) == IF ss = <<>> THEN <<>> ELSE Head(ss) \o Concat(Tail(ss))

\* int.from_bytes(bs, byteorder="little"); the empty string gives 0.  Python's
\* integers are unbounded: a value of 2^30 or more, which is beyond the length
\* of every byte string here, is given as 2^30 to stay within TLC's integers.
RECURSIVE from_bytes(_)
from_bytes(bs) ==
    IF bs = <<>> THEN 0
    ELSE LET hi == from_bytes(Tail(bs))
         IN  IF hi >= 4194304 THEN 1073741824 ELSE Head(bs) + 256 * hi

\* struct.pack("<H", n) and struct.pack("<L", n)
pack_le(n, width) == [i \in 1..width |-> (n \div (256 ^ (i - 1))) % 256]

----------------------------------------------------------------------------
(* tx/script/opcodes.py: the opcode table *)

OP_0 == 0
OP_PUSHDATA1 == 76
OP_PUSHDATA2 == 77
OP_PUSHDATA4 == 78
OP_1 == 81
OP_16 == 96
OP_CHECKSIG == 172
OP_CHECKMULTISIG == 174

\* OPCODE_TO_INT["OP_%d" % v] for the v that have such an opcode
OP_N(v) == IF v = 0 THEN OP_0 ELSE OP_1 + (v - 1)

----------------------------------------------------------------------------
(* tx/script/tools.py: get_opcode *)

NoToken == [exc |-> "none", at |-> 0, opcode |-> 0, has_data |-> FALSE,
            data |-> <<>>, pc |-> 0]

\* a mutant: the length prefix is always read from one byte
push_size_one_byte(scr, pc1, opcode) ==
    IF opcode < OP_PUSHDATA1 THEN [size |-> opcode, pc |-> pc1]
    ELSE IF opcode = OP_PUSHDATA1
    THEN [size |-> from_bytes(Slice(scr, pc1, pc1 + 1)), pc |-> pc1 + 1]
    ELSE IF opcode = OP_PUSHDATA2
    THEN [size |-> from_bytes(Slice(scr, pc1, pc1 + 1)), pc |-> pc1 + 2]
    ELSE [size |-> from_bytes(Slice(scr, pc1, pc1 + 1)), pc |-> pc1 + 4]

\* the size of the data of a push opcode and the cursor after its length
\* prefix; pc1 is the cursor after the opcode byte
push_size(scr, pc1, opcode) ==
    IF opcode < OP_PUSHDATA1 THEN [size |-> opcode, pc |-> pc1]
    ELSE IF opcode = OP_PUSHDATA1
    THEN [size |-> from_bytes(Slice(scr, pc1, pc1 + 1)), pc |-> pc1 + 1]
    ELSE IF opcode = OP_PUSHDATA2
    THEN [size |-> from_bytes(Slice(scr, pc1, pc1 + 2)), pc |-> pc1 + 2]
    ELSE [size |-> from_bytes(Slice(scr, pc1, pc1 + 4)), pc |-> pc1 + 4]

get_opcode(scr, at) ==
    IF Slice(scr, at, at + 1) = <<>>
    THEN \* ord(b'') raises TypeError
         [NoToken EXCEPT !.exc = "TypeError", !.at = at]
    ELSE
    LET opcode == scr[at + 1]
        pc1 == at + 1
    IN  IF opcode <= OP_PUSHDATA4
        THEN LET ps == push_size(scr, pc1, opcode)
                 data == Slice(scr, ps.pc, ps.pc + ps.size)
             IN  IF Len(data) < ps.size
                 THEN [NoToken EXCEPT !.exc = "ScriptError", !.at = at,
                                      !.opcode = opcode]
                 ELSE [exc |-> "none", at |-> at, opcode |-> opcode,
                       has_data |-> TRUE, data |-> data,
                       pc |-> ps.pc + ps.size]
        ELSE [exc |-> "none", at |-> at, opcode |-> opcode,
              has_data |-> FALSE, data |-> <<>>, pc |-> pc1]

----------------------------------------------------------------------------
(* tx/script/tools.py: write_push_data and bin_script *)

\* the bytes written for one element of data_list
push_data(t) ==
    IF Len(t) = 0 THEN <<OP_0>>
    ELSE IF Len(t) = 1 /\ t[1] <= 16 THEN <<OP_N(t[1])>>
    ELSE IF Len(t) <= 255
    THEN (IF Len(t) > 75 THEN <<OP_PUSHDATA1>> ELSE <<>>) \o <<Len(t)>> \o t
    ELSE IF Len(t) <= 65535
    THEN <<OP_PUSHDATA2>> \o pack_le(Len(t), 2) \o t
    ELSE <<OP_PUSHDATA4>> \o pack_le(Len(t), 4) \o t

write_push_data(dl) == Concat([i \in 1..Len(dl) |-> push_data(dl[i])])

bin_script(dl) == write_push_data(dl)

----------------------------------------------------------------------------
(* Inputs of the script tools *)

RECURSIVE SeqsUpTo(_, _)
SeqsUpTo(S, n) ==
    IF n = 0 THEN {<<>>}
    ELSE LET shorter == SeqsUpTo(S, n - 1)
         IN  shorter \cup {<<x>> \o s : x \in S, s \in {t \in shorter : Len(t) = n - 1}}

ScriptBytes == {0, 1, 2, OP_PUSHDATA1, OP_PUSHDATA2, OP_PUSHDATA4, OP_CHECKSIG}

\* the scripts of up to n bytes
Scripts(n) == SeqsUpTo(ScriptBytes, n)

SmallBlobs == {<<>>, <<0>>, <<1>>, <<5>>, <<16>>, <<17>>, <<129>>, <<1, 2>>,
               Fill(75, 7), Fill(76, 7)}

BigBlobs == {Fill(255, 7), Fill(256, 7), Fill(65535, 7), Fill(65536, 7)}

DataLists == (SeqsUpTo(SmallBlobs, MaxPush) \ {<<>>}) \cup {<<b>> : b \in BigBlobs}

----------------------------------------------------------------------------
(* The script tools as a state machine: a script is given or compiled from  *)
(* a data list by bin_script, then read token by token as opcode_list does *)

None == -1

NoOutcome == [op |-> "none", exc |-> "none", raised_by |-> "", stack |-> <<>>,
              digest_calls |-> <<>>, verify_calls |-> <<>>,
              sig_blob_indices |-> <<>>, parsed |-> 0]

HandlerIdle ==
    /\ stack = <<>>
    /\ flags = {}
    /\ expected_hash_type = None
    /\ tmp_script = <<>>
    /\ entry = <<>>
    /\ outcome = NoOutcome

InitTools ==
    /\ pc = 0
    /\ token = NoToken
    /\ \/ phase = "script" /\ script \in Scripts(MaxScriptLen) /\ data_list = <<>>
       \/ phase = "data" /\ script = <<>> /\ data_list \in DataLists
    /\ HandlerIdle

BinScript ==
    /\ phase = "data"
    /\ script' = bin_script(data_list)
    /\ phase' = "compiled"
    /\ UNCHANGED <<pc, token, data_list, stack, flags, expected_hash_type,
                   tmp_script, entry, outcome>>

\* one turn of the loop of opcode_list; an exception ends the loop
OpcodeListStep ==
    /\ phase \in {"script", "compiled"}
    /\ token.exc = "none"
    /\ pc < Len(script)
    /\ token' = get_opcode(script, pc)
    /\ pc' = IF token'.exc = "none" THEN token'.pc ELSE pc
    /\ UNCHANGED <<phase, script, data_list, stack, flags, expected_hash_type,
                   tmp_script, entry, outcome>>

NextTools == BinScript \/ OpcodeListStep

SpecTools == InitTools /\ [][NextTools]_vars

----------------------------------------------------------------------------
(* tx/script/tools.py: delete_subscript *)

\* the loop of delete_subscript from cursor at, new_script being what is kept
RECURSIVE delete_subscript_from(_, _, _, _)
delete_subscript_from(scr, subscript, at, new_script) ==
    IF at >= Len(scr) THEN [exc |-> "none", script |-> new_script]
    ELSE LET tok == get_opcode(scr, at)
             section == Slice(scr, at, tok.pc)
         IN  IF tok.exc # "none" THEN [exc |-> tok.exc, script |-> <<>>]
             ELSE delete_subscript_from(scr, subscript, tok.pc,
                      IF section # subscript THEN new_script \o section
                      ELSE new_script)

delete_subscript(scr, subscript) == delete_subscript_from(scr, subscript, 0, <<>>)

----------------------------------------------------------------------------
(* Unbounded integers: r, s and the curve constants are big-endian byte     *)
(* strings without leading zero bytes                                      *)

RECURSIVE Strip(_)
Strip(bs) == IF bs # <<>> /\ Head(bs) = 0 THEN Strip(Tail(bs)) ELSE bs

BigLess(a, b) ==
    \/ Len(a) < Len(b)
    \/ /\ Len(a) = Len(b)
       /\ \E i \in 1..Len(a) : a[i] < b[i] /\ \A j \in 1..(i - 1) : a[j] = b[j]

PadTo(bs, n) == Fill(n - Len(bs), 0) \o bs

\* the borrow out of digit i of a - b, both of one length
RECURSIVE BorrowOut(_, _, _)
BorrowOut(a, b, i) ==
    IF i > Len(a) THEN 0
    ELSE IF a[i] - b[i] - BorrowOut(a, b, i + 1) < 0 THEN 1 ELSE 0

\* a - b for a >= b
BigSub(a, b) ==
    LET bb == PadTo(b, Len(a))
    IN  Strip([i \in 1..Len(a) |-> (a[i] - bb[i] - BorrowOut(a, bb, i + 1) + 256) % 256])

\* pycoin.ecdsa.secp256k1._p
secp256k1_p == Fill(27, 255) \o <<254, 255, 255, 252, 47>>

----------------------------------------------------------------------------
(* tx/script/flags.py, tx/Tx.py, tx/script/microcode.py: constants *)

VERIFY_STRICTENC == "VERIFY_STRICTENC"
VERIFY_DERSIG == "VERIFY_DERSIG"
VERIFY_LOW_S == "VERIFY_LOW_S"
VERIFY_NULLDUMMY == "VERIFY_NULLDUMMY"
VERIFY_MINIMALDATA == "VERIFY_MINIMALDATA"

AllFlags == {VERIFY_STRICTENC, VERIFY_DERSIG, VERIFY_LOW_S, VERIFY_NULLDUMMY,
             VERIFY_MINIMALDATA}

SIGHASH_ALL == 1
SIGHASH_NONE == 2
SIGHASH_SINGLE == 3
SIGHASH_ANYONECANPAY == 128

VCH_TRUE == <<1>>
VCH_FALSE == <<>>

----------------------------------------------------------------------------
(* tx/script/check_signature.py: the encoding checks *)

\* sig[i] of Python, for an index inside sig; an index outside raises
\* IndexError
At(sig, i) == sig[i + 1]
Outside(sig, i) == i >= Len(sig)

\* a mutant: the upper limit of the length is not checked
bad_signature_size_short_only(ls) == ls < 9

\* check_valid_signature, line 45
bad_signature_size(ls) == ls < 9 \/ ls > 73

check_valid_signature(sig) ==
    LET ls == Len(sig)
    IN  IF bad_signature_size(ls) THEN "ScriptError"
        ELSE IF Outside(sig, 0) THEN "IndexError"
        ELSE IF At(sig, 0) # 48 THEN "ScriptError"
        ELSE IF Outside(sig, 1) THEN "IndexError"
        ELSE IF At(sig, 1) # ls - 3 THEN "ScriptError"
        ELSE IF Outside(sig, 3) THEN "IndexError"
        ELSE LET r_len == At(sig, 3)
             IN  IF 5 + r_len >= ls THEN "ScriptError"
                 ELSE IF Outside(sig, 5 + r_len) THEN "IndexError"
                 ELSE LET s_len == At(sig, 5 + r_len)
                      IN  IF r_len + s_len + 7 # ls THEN "ScriptError"
                          ELSE IF At(sig, 2) # 2 THEN "ScriptError"
                          ELSE IF r_len = 0 THEN "ScriptError"
                          ELSE IF Outside(sig, 4) THEN "IndexError"
                          ELSE IF At(sig, 4) >= 128 THEN "ScriptError"
                          ELSE IF r_len > 1 /\ At(sig, 4) = 0 /\ Outside(sig, 5)
                          THEN "IndexError"
                          ELSE IF r_len > 1 /\ At(sig, 4) = 0 /\ At(sig, 5) < 128
                          THEN "ScriptError"
                          ELSE IF Outside(sig, r_len + 4) THEN "IndexError"
                          ELSE IF At(sig, r_len + 4) # 2 THEN "ScriptError"
                          ELSE IF s_len = 0 THEN "ScriptError"
                          ELSE IF Outside(sig, r_len + 6) THEN "IndexError"
                          ELSE IF At(sig, r_len + 6) >= 128 THEN "ScriptError"
                          ELSE IF s_len > 1 /\ At(sig, r_len + 6) = 0
                                  /\ Outside(sig, r_len + 7)
                          THEN "IndexError"
                          ELSE IF s_len > 1 /\ At(sig, r_len + 6) = 0
                                  /\ At(sig, r_len + 7) < 128
                          THEN "ScriptError"
                          ELSE "none"

check_low_der_signature(sig_pair) ==
    LET s == sig_pair[2]
        hi_s_negative == BigLess(secp256k1_p, s)
    IN  IF hi_s_negative \/ BigLess(BigSub(secp256k1_p, s), s)
        THEN "ScriptError" ELSE "none"

\* a mutant: the anyone-can-pay bit is not cleared
check_defined_hashtype_unmasked(sig) ==
    IF Len(sig) = 0 THEN "ScriptError"
    ELSE IF sig[Len(sig)] < SIGHASH_ALL \/ sig[Len(sig)] > SIGHASH_SINGLE
    THEN "ScriptError" ELSE "none"

check_defined_hashtype_signature(sig) ==
    IF Len(sig) = 0 THEN "ScriptError"
    ELSE LET hash_type == sig[Len(sig)] % SIGHASH_ANYONECANPAY
         IN  IF hash_type < SIGHASH_ALL \/ hash_type > SIGHASH_SINGLE
             THEN "ScriptError" ELSE "none"

\* a mutant: the length is not compared with 65 and 33
check_public_key_prefix_only(blob) ==
    IF Len(blob) >= 33 /\ blob[1] \in {2, 3, 4} THEN "none" ELSE "ScriptError"

check_public_key_encoding(blob) ==
    LET lb == Len(blob)
    IN  IF lb >= 33 /\ ((blob[1] = 4 /\ lb = 65) \/ (blob[1] \in {2, 3} /\ lb = 33))
        THEN "none" ELSE "ScriptError"

----------------------------------------------------------------------------
(* Collaborators whose code is outside the core: tx/script/der.py,         *)
(* encoding.py and ecdsa, modelled by their contract                       *)

\* der.sigdecode_der(der, use_broken_open_ssl_mechanism=True): the bytes
\* 30 L 02 rl r.. 02 sl s.. with consistent short-form lengths decode to
\* (r, s), each read as an unsigned number; anything else is UnexpectedDER
sigdecode_der(der) ==
    LET n == Len(der)
        bad == [exc |-> "UnexpectedDER", sig_pair |-> <<<<>>, <<>>>>]
    IN  IF n < 6 \/ der[1] # 48 \/ der[2] # n - 2 \/ der[3] # 2 THEN bad
        ELSE LET rl == der[4]
             IN  IF rl >= 128 \/ 4 + rl + 2 > n \/ der[4 + rl + 1] # 2 THEN bad
                 ELSE LET sl == der[4 + rl + 2]
                      IN  IF sl >= 128 \/ 4 + rl + 2 + sl # n THEN bad
                          ELSE [exc |-> "none",
                                sig_pair |-> <<Strip(SubSeq(der, 5, 4 + rl)),
                                               Strip(SubSeq(der, 4 + rl + 3, n))>>]

\* encoding.sec_to_public_pair(blob, strict): the public pair (x, parity of
\* y) of a compressed (02/03 x), uncompressed (04 x y) or, unless strict,
\* hybrid (06/07 x y) point; EncodingError for another shape or for an x that
\* is not on the curve (here: an x whose last byte is 255)
NoPair == <<<<>>, 2>>

sec_to_public_pair(blob, strict) ==
    LET lb == Len(blob)
        x == IF lb >= 33 THEN Strip(SubSeq(blob, 2, 33)) ELSE <<>>
        bad == [exc |-> "EncodingError", public_pair |-> NoPair]
    IN  IF lb = 0 THEN bad
        ELSE IF blob[1] \in {2, 3} /\ lb = 33 /\ blob[33] # 255
        THEN [exc |-> "none", public_pair |-> <<x, blob[1] - 2>>]
        ELSE IF (blob[1] = 4 \/ (blob[1] \in {6, 7} /\ ~strict)) /\ lb = 65
                /\ blob[33] # 255
        THEN [exc |-> "none", public_pair |-> <<x, blob[65] % 2>>]
        ELSE bad

\* signature_for_hash_type_f(signature_type, script=tmp_script): the digest is
\* opaque; it is kept as the arguments it was asked for
signature_for_hash_type_f(signature_type, scr) ==
    [hash_type |-> signature_type, script |-> scr]

\* ecdsa.possible_public_pairs_for_signature(generator, digest, sig_pair): the
\* public pairs under which the signature verifies.  Recovery gives up to
\* two points: here the even-y points whose x is r and whose x is s; r = 0 or
\* s = 0 has no point (NoSuchPointError, which the caller turns into [])
possible_public_pairs_for_signature(digest, sig_pair) ==
    IF sig_pair[1] = <<>> \/ sig_pair[2] = <<>> THEN {}
    ELSE {<<sig_pair[1], 0>>, <<sig_pair[2], 0>>}

\* ecdsa.verify(generator, public_pair, digest, sig_pair)
ecdsa_verify(public_pair, digest, sig_pair) ==
    public_pair \in possible_public_pairs_for_signature(digest, sig_pair)

----------------------------------------------------------------------------
(* tx/script/check_signature.py: parse_signature_blob and op_checksig *)

\* a mutant: the grammar check is made with DER-only set and not otherwise
parse_checks_grammar_dersig_only(fl) == VERIFY_DERSIG \in fl

\* parse_signature_blob, line 101
parse_checks_grammar(fl) ==
    fl \cap {VERIFY_DERSIG, VERIFY_LOW_S, VERIFY_STRICTENC} # {}

\* checks: the checks called, in the order of the calls
parse_signature_blob(sig_blob, fl) ==
    LET result(exc, pair, type, checks) ==
            [exc |-> exc, sig_pair |-> pair, signature_type |-> type,
             checks |-> checks]
        failed(exc, checks) == result(exc, <<<<>>, <<>>>>, 0, checks)
        decoded == sigdecode_der(SubSeq(sig_blob, 1, Len(sig_blob) - 1))
        grammar == IF parse_checks_grammar(fl)
                   THEN <<"check_valid_signature">> ELSE <<>>
        hashtype == IF VERIFY_STRICTENC \in fl
                    THEN grammar \o <<"check_defined_hashtype_signature">>
                    ELSE grammar
        low_s == IF VERIFY_LOW_S \in fl
                 THEN hashtype \o <<"check_low_der_signature">> ELSE hashtype
    IN  IF Len(sig_blob) = 0 THEN result("none", <<<<>>, <<>>>>, 0, <<>>)
        ELSE IF parse_checks_grammar(fl) /\ check_valid_signature(sig_blob) # "none"
        THEN failed(check_valid_signature(sig_blob), grammar)
        ELSE IF VERIFY_STRICTENC \in fl
                /\ check_defined_hashtype_signature(sig_blob) # "none"
        THEN failed("ScriptError", hashtype)
        ELSE IF decoded.exc # "none" THEN failed(decoded.exc, hashtype)
        ELSE IF VERIFY_LOW_S \in fl
                /\ check_low_der_signature(decoded.sig_pair) # "none"
        THEN failed("ScriptError", low_s)
        ELSE result("none", decoded.sig_pair, sig_blob[Len(sig_blob)], low_s)

\* what a handler did: the exception it raised ("none": it returned) and the
\* statement that raised it, the stack it left, the digests it asked for and
\* the verifications it made
Outcome(op, exc, stk, digest_calls, verify_calls) ==
    [op |-> op, exc |-> exc[1], raised_by |-> exc[2], stack |-> stk,
     digest_calls |-> digest_calls, verify_calls |-> verify_calls,
     sig_blob_indices |-> <<>>, parsed |-> 0]

Returned == <<"none", "">>

Pop(stk) == SubSeq(stk, 1, Len(stk) - 1)
Top(stk) == stk[Len(stk)]

\* a mutant: the strict encoding check of the public key is left out
checksig_key_check_skipped(pair_blob, verify_strict) == "none"

\* op_checksig, lines 134-135
checksig_key_check(pair_blob, verify_strict) ==
    IF verify_strict THEN check_public_key_encoding(pair_blob) ELSE "none"

\* a mutant: every exception of the try block is turned into a pushed false
checksig_caught_all(exc) == exc # "none"

\* op_checksig, line 138: the exceptions the try block turns into VCH_FALSE
checksig_caught(exc) == exc \in {"UnexpectedDER", "ValueError", "EncodingError"}

\* a mutant: the expected hash type is not compared
wrong_hash_type_never(expected, signature_type) == FALSE

\* op_checksig, line 142
wrong_hash_type(expected, signature_type) ==
    expected \notin {None, signature_type}

op_checksig(stk, expected, scr, fl) ==
    IF Len(stk) = 0
    THEN Outcome("op_checksig", <<"IndexError", "stack.pop">>, stk, <<>>, <<>>)
    ELSE IF Len(stk) = 1
    THEN Outcome("op_checksig", <<"IndexError", "stack.pop">>, Pop(stk), <<>>, <<>>)
    ELSE
    LET pair_blob == Top(stk)
        sig_blob == Top(Pop(stk))
        rest == Pop(Pop(stk))
        verify_strict == VERIFY_STRICTENC \in fl
        key_exc == checksig_key_check(pair_blob, verify_strict)
        parsed == parse_signature_blob(sig_blob, fl)
        pair == sec_to_public_pair(pair_blob, verify_strict)
        try_exc == IF key_exc # "none" THEN <<key_exc, "check_public_key_encoding">>
                   ELSE IF parsed.exc # "none" THEN <<parsed.exc, "parse_signature_blob">>
                   ELSE <<pair.exc, "sec_to_public_pair">>
        deleted == delete_subscript(scr, bin_script(<<sig_blob>>))
        signature_hash ==
            signature_for_hash_type_f(parsed.signature_type, deleted.script)
        call == <<pair.public_pair, signature_hash, parsed.sig_pair>>
    IN  IF try_exc[1] # "none"
        THEN IF checksig_caught(try_exc[1])
             THEN Outcome("op_checksig", Returned, rest \o <<VCH_FALSE>>, <<>>, <<>>)
             ELSE Outcome("op_checksig", try_exc, rest, <<>>, <<>>)
        ELSE IF wrong_hash_type(expected, parsed.signature_type)
        THEN Outcome("op_checksig", <<"ScriptError", "wrong hash type">>, rest,
                     <<>>, <<>>)
        ELSE IF deleted.exc # "none"
        THEN Outcome("op_checksig", <<deleted.exc, "delete_subscript">>, rest,
                     <<>>, <<>>)
        ELSE Outcome("op_checksig", Returned,
                     rest \o <<IF ecdsa_verify(pair.public_pair, signature_hash,
                                               parsed.sig_pair)
                               THEN VCH_TRUE ELSE VCH_FALSE>>,
                     <<signature_hash>>, <<call>>)

----------------------------------------------------------------------------
(* tx/script/check_signature.py: sig_blob_matches *)

Elems(seq) == {seq[i] : i \in 1..Len(seq)}

\* the for loop over enumerate(public_pair_blobs) from index idx: the index
\* of the first blob not yet in sig_blob_indices whose public pair is in ppp,
\* -1 (the else of the for) when there is none
RECURSIVE key_scan(_, _, _, _, _)
key_scan(public_pair_blobs, idx, sig_blob_indices, ppp, strict_encoding) ==
    IF idx >= Len(public_pair_blobs) THEN [exc |-> "none", idx |-> -1]
    ELSE IF idx \in Elems(sig_blob_indices)
    THEN key_scan(public_pair_blobs, idx + 1, sig_blob_indices, ppp, strict_encoding)
    ELSE LET ppb == public_pair_blobs[idx + 1]
             pp == sec_to_public_pair(ppb, strict_encoding)
         IN  IF strict_encoding /\ check_public_key_encoding(ppb) # "none"
             THEN [exc |-> "ScriptError", idx |-> -1]
             ELSE IF pp.exc = "none" /\ pp.public_pair \in ppp
             THEN [exc |-> "none", idx |-> idx]
             ELSE key_scan(public_pair_blobs, idx + 1, sig_blob_indices, ppp,
                           strict_encoding)

\* the script with the push of every signature blob removed, lines 180-181
RECURSIVE drop_signatures(_, _, _)
drop_signatures(scr, sig_blobs, i) ==
    IF i > Len(sig_blobs) THEN [exc |-> "none", script |-> scr]
    ELSE LET deleted == delete_subscript(scr, bin_script(<<sig_blobs[i]>>))
         IN  IF deleted.exc # "none" THEN deleted
             ELSE drop_signatures(deleted.script, sig_blobs, i + 1)

Matches(exc, sig_blob_indices, digest_calls, parsed) ==
    [exc |-> exc[1], raised_by |-> exc[2], sig_blob_indices |-> sig_blob_indices,
     digest_calls |-> digest_calls, parsed |-> parsed]

\* the test of line 194 left out: a digest is asked for every signature
in_sig_cache_never(digest_calls, signature_type) == FALSE

\* line 194: signature_type in sig_cache, the cache being the digests asked
\* for so far
in_sig_cache(digest_calls, signature_type) ==
    \E k \in 1..Len(digest_calls) : digest_calls[k].hash_type = signature_type

\* lines 219-220 left out: a signature that matches no key does not end the loop
unmatched_exit_never(exit_early, idx) == FALSE

\* lines 217-220: the else of the for loop has appended -1 and exit_early is set
unmatched_exit(exit_early, idx) == exit_early /\ idx = -1

\* the for loop over sig_blobs from the i-th blob on. sig_cache is kept as the
\* digests asked for so far, in order
RECURSIVE match_from(_, _, _, _, _, _, _, _)
match_from(sig_blobs, public_pair_blobs, scr, fl, exit_early, i, sig_blob_indices, digest_calls) ==
    IF i > Len(sig_blobs)
    THEN Matches(Returned, sig_blob_indices, digest_calls, i - 1)
    ELSE
    LET parsed == parse_signature_blob(sig_blobs[i], fl)
        cached == in_sig_cache(digest_calls, parsed.signature_type)
        calls == IF cached THEN digest_calls
                 ELSE Append(digest_calls,
                             signature_for_hash_type_f(parsed.signature_type, scr))
        digest == signature_for_hash_type_f(parsed.signature_type, scr)
        ppp == possible_public_pairs_for_signature(digest, parsed.sig_pair)
        scan == key_scan(public_pair_blobs, 0, sig_blob_indices, ppp,
                         VERIFY_STRICTENC \in fl)
        found == Append(sig_blob_indices, scan.idx)
    IN  IF parsed.exc = "UnexpectedDER"
        THEN IF exit_early
             THEN Matches(Returned, Append(sig_blob_indices, -1), digest_calls, i)
             ELSE match_from(sig_blobs, public_pair_blobs, scr, fl, exit_early,
                             i + 1, Append(sig_blob_indices, -1), digest_calls)
        ELSE IF parsed.exc # "none"
        THEN Matches(<<parsed.exc, "parse_signature_blob">>, sig_blob_indices,
                     digest_calls, i)
        ELSE IF ppp # {}
        THEN IF scan.exc # "none"
             THEN Matches(<<scan.exc, "check_public_key_encoding">>,
                          sig_blob_indices, calls, i)
             ELSE IF unmatched_exit(exit_early, scan.idx)
             THEN Matches(Returned, found, calls, i)
             ELSE IF Len(found) > 1 /\ exit_early
                     /\ found[Len(found)] <= found[Len(found) - 1]
             THEN Matches(Returned, found, calls, i)
             ELSE match_from(sig_blobs, public_pair_blobs, scr, fl, exit_early,
                             i + 1, found, calls)
        ELSE IF exit_early
             THEN Matches(Returned, sig_blob_indices, calls, i)
             ELSE match_from(sig_blobs, public_pair_blobs, scr, fl, exit_early,
                             i + 1, sig_blob_indices, calls)

sig_blob_matches(sig_blobs, public_pair_blobs, scr, fl, exit_early) ==
    LET dropped == drop_signatures(scr, sig_blobs, 1)
    IN  IF dropped.exc # "none"
        THEN Matches(<<dropped.exc, "delete_subscript">>, <<>>, <<>>, 0)
        ELSE match_from(sig_blobs, public_pair_blobs, dropped.script, fl,
                        exit_early, 1, <<>>, <<>>)

----------------------------------------------------------------------------
(* tx/script/check_signature.py: op_checkmultisig *)

\* tools.int_from_script_bytes(s, require_minimal): a script number, little
\* endian with the sign in the top bit of the last byte; with require_minimal
\* a needless last byte is a ScriptError
RECURSIVE magnitude(_)
magnitude(bs) ==
    IF bs = <<>> THEN 0
    ELSE IF Len(bs) = 1 THEN bs[1] % 128
    ELSE Head(bs) + 256 * magnitude(Tail(bs))

int_from_script_bytes(bs, require_minimal) ==
    IF Len(bs) = 0 THEN [exc |-> "none", value |-> 0]
    ELSE IF /\ require_minimal
            /\ bs[Len(bs)] % 128 = 0
            /\ (Len(bs) <= 1 \/ bs[Len(bs) - 1] < 128)
    THEN [exc |-> "ScriptError", value |-> 0]
    ELSE [exc |-> "none",
          value |-> IF bs[Len(bs)] >= 128 THEN 0 - magnitude(bs) ELSE magnitude(bs)]

\* the elements n calls of stack.pop() return, in the order popped (range(n)
\* is empty for n <= 0), and the stack they leave
Popped(stk, n) == [i \in 1..(IF n <= 0 THEN 0 ELSE n) |-> stk[Len(stk) + 1 - i]]
Left(stk, n) == IF n <= 0 THEN stk ELSE SubSeq(stk, 1, Len(stk) - n)

\* a mutant: the upper limit of the key count is not checked
key_count_bad_no_limit(key_count) == key_count < 0

\* op_checkmultisig, line 237
key_count_bad(key_count) == key_count < 0 \/ key_count > 20

\* a mutant: a signature count equal to the key count is refused too
too_many_signatures_strict(signature_count, key_count) == signature_count >= key_count

\* op_checkmultisig, line 246
too_many_signatures(signature_count, key_count) == signature_count > key_count

\* a mutant: the dummy is checked whatever the flags are
bad_dummy_any_flags(fl, stk) == Top(stk) # <<>>

\* op_checkmultisig, lines 254-257, for a stack that is not empty
bad_dummy(fl, stk) == VERIFY_NULLDUMMY \in fl /\ Top(stk) # <<>>

\* op_checkmultisig, lines 267-275
multisig_ok(sig_blob_indices, sig_blobs) ==
    /\ -1 \notin Elems(sig_blob_indices)
    /\ Len(sig_blob_indices) = Len(sig_blobs)
    /\ \A i \in 1..(Len(sig_blob_indices) - 1) :
           sig_blob_indices[i] < sig_blob_indices[i + 1]

MultisigOutcome(exc, stk, m) ==
    [Outcome("op_checkmultisig", exc, stk, m.digest_calls, <<>>)
        EXCEPT !.sig_blob_indices = m.sig_blob_indices, !.parsed = m.parsed]

NoMatches == Matches(Returned, <<>>, <<>>, 0)

op_checkmultisig(stk, expected, scr, fl) ==
    LET require_minimal == VERIFY_MINIMALDATA \in fl
        raise(exc, by, left) == MultisigOutcome(<<exc, by>>, left, NoMatches)
        underflow(left) == raise("IndexError", "stack.pop", left)
    IN
    IF Len(stk) = 0 THEN underflow(stk)
    ELSE
    LET kc == int_from_script_bytes(Top(stk), require_minimal)
        key_count == kc.value
        stk1 == Pop(stk)
    IN
    IF kc.exc # "none" THEN raise(kc.exc, "int_from_script_bytes", stk1)
    ELSE IF key_count_bad(key_count)
    THEN raise("ScriptError", "key_count not in range 0 to 20", stk1)
    ELSE IF Len(stk1) < key_count + 1 THEN underflow(<<>>)
    ELSE
    LET public_pair_blobs == Popped(stk1, key_count)
        stk2 == Left(stk1, key_count)
        sc == int_from_script_bytes(Top(stk2), require_minimal)
        signature_count == sc.value
        stk3 == Pop(stk2)
    IN
    IF sc.exc # "none" THEN raise(sc.exc, "int_from_script_bytes", stk3)
    ELSE IF too_many_signatures(signature_count, key_count)
    THEN raise("ScriptError", "too many signatures", stk3)
    ELSE IF Len(stk3) < signature_count THEN underflow(<<>>)
    ELSE
    LET sig_blobs == Popped(stk3, signature_count)
        stk4 == Left(stk3, signature_count)
    IN
    IF Len(stk4) = 0 THEN underflow(stk4)
    ELSE IF bad_dummy(fl, stk4)
    THEN raise("ScriptError", "bad dummy byte in checkmultisig", stk4)
    ELSE
    LET stk5 == Pop(stk4)
        m == sig_blob_matches(sig_blobs, public_pair_blobs, scr, fl, TRUE)
    IN  IF m.exc # "none"
        THEN MultisigOutcome(<<m.exc, m.raised_by>>, stk5, m)
        ELSE MultisigOutcome(Returned,
                 stk5 \o <<IF multisig_ok(m.sig_blob_indices, sig_blobs)
                           THEN VCH_TRUE ELSE VCH_FALSE>>, m)

----------------------------------------------------------------------------
(* op_checksig as a state machine: the interpreter has pushed a signature  *)
(* blob and a public key blob (or too little) and runs the handler         *)

\* the blob DER(r, s) || hash type
DerSig(r, s, hash_type) ==
    <<48, 4 + Len(r) + Len(s), 2, Len(r)>> \o r \o <<2, Len(s)>> \o s \o <<hash_type>>

\* the compressed and uncompressed encodings of the point with x = <<x>>, y even
KeyC(x) == <<2>> \o Fill(31, 0) \o <<x>>
KeyU(x) == <<4>> \o Fill(31, 0) \o <<x>> \o Fill(32, 0)

HighS == Fill(27, 255) \o <<254, 255, 255, 252, 46>>

SigBlobs ==
    { DerSig(<<1>>, <<1>>, SIGHASH_ALL),       \* verifies under the key x = 1
      DerSig(<<2>>, <<2>>, SIGHASH_ALL),       \* verifies under the key x = 2
      DerSig(<<1>>, <<1>>, SIGHASH_NONE),
      DerSig(<<1>>, <<1>>, 4),                 \* undefined hash type
      DerSig(<<0, 1>>, <<1>>, SIGHASH_ALL),    \* r has a needless leading zero
      <<>>,                                    \* no signature
      <<SIGHASH_ALL>>,                         \* the solver's dummy signature
      DerSig(<<1>>, <<0>> \o HighS, SIGHASH_ALL), \* s = _p - 1
      <<48, 6, 2, 1, 1, 2, 1, 1>> }            \* 8 bytes: no hash type byte

KeyBlobs ==
    { KeyC(1), KeyU(1), KeyC(2),
      <<3>> \o Fill(31, 0) \o <<1>>,           \* the point x = 1 with y odd
      <<2>> \o Fill(31, 0) \o <<255>>,         \* well-formed, not on the curve
      <<6>> \o Fill(31, 0) \o <<1>> \o Fill(32, 0),   \* hybrid encoding
      <<2, 1>>,                                \* too short
      <<>> }

SubScripts(sig) ==
    { <<OP_CHECKSIG>>,
      bin_script(<<sig>>) \o <<OP_CHECKSIG>>,
      bin_script(<<<<9>>, sig, <<9>>>>) \o <<OP_CHECKSIG>> }

ExpectedHashTypes == {None, SIGHASH_ALL, SIGHASH_NONE}

ToolsIdle ==
    /\ script = <<>>
    /\ pc = 0
    /\ token = NoToken
    /\ data_list = <<>>

InitSig ==
    /\ phase = "ready"
    /\ ToolsIdle
    /\ flags \in SUBSET AllFlags
    /\ expected_hash_type \in ExpectedHashTypes
    /\ \/ \E sig \in SigBlobs, key \in KeyBlobs :
             /\ stack \in {<<sig, key>>, <<<<9>>, sig, key>>}
             /\ tmp_script \in SubScripts(sig)
       \/ /\ stack \in {<<>>, <<KeyC(1)>>}
          /\ tmp_script = <<OP_CHECKSIG>>
    /\ entry = stack
    /\ outcome = NoOutcome

OpCheckSig ==
    /\ phase = "ready"
    /\ outcome' = op_checksig(stack, expected_hash_type, tmp_script, flags)
    /\ stack' = outcome'.stack
    /\ phase' = "done"
    /\ UNCHANGED <<script, pc, token, data_list, flags, expected_hash_type,
                   tmp_script, entry>>

NextSig == OpCheckSig

SpecSig == InitSig /\ [][NextSig]_vars

----------------------------------------------------------------------------
(* op_checkmultisig as a state machine: the interpreter has pushed the      *)
(* dummy, the signatures, their count, the keys and their count (or too    *)
(* little) and runs the handler; sig_blob_matches is also called without   *)
(* early exit on the same signatures and keys, as a solver calls it        *)

Reverse(seq) == [i \in 1..Len(seq) |-> seq[Len(seq) + 1 - i]]

\* the minimal script number of n, for the counts used here
ScriptNum(n) == IF n = 0 THEN <<>> ELSE IF n > 0 THEN <<n>> ELSE <<128 - n>>

\* the stack whose pops give key_num, the keys in order, sig_num, the
\* signatures in order and the dummy
MultisigStack(dummy, sigs, sig_num, keys, key_num) ==
    <<dummy>> \o Reverse(sigs) \o <<sig_num>> \o Reverse(keys) \o <<key_num>>

MultisigKeys == {KeyC(1), KeyC(2), <<2, 1>>}

MultisigSigs == { DerSig(<<1>>, <<1>>, SIGHASH_ALL),
                  DerSig(<<2>>, <<2>>, SIGHASH_ALL),
                  <<SIGHASH_ALL>>,
                  <<>> }

MultisigFlags == { {}, {VERIFY_NULLDUMMY}, {VERIFY_STRICTENC},
                   {VERIFY_DERSIG, VERIFY_MINIMALDATA} }

Dummies == {<<>>, <<1>>}

MultisigScript ==
    bin_script(<<DerSig(<<1>>, <<1>>, SIGHASH_ALL)>>) \o <<OP_CHECKMULTISIG>>

\* stacks for every small list of keys and of signatures
SmallStacks ==
    { MultisigStack(d, sigs, ScriptNum(Len(sigs)), keys, ScriptNum(Len(keys))) :
        d \in Dummies,
        sigs \in SeqsUpTo(MultisigSigs, MaxSigs),
        keys \in SeqsUpTo(MultisigKeys, MaxKeys) }

\* stacks for every count up to and around the limits, with one key and one
\* signature repeated, and counts that are not minimally encoded
CountStacks ==
    { MultisigStack(<<>>, Fill(IF sc < 0 THEN 0 ELSE sc, DerSig(<<1>>, <<1>>, SIGHASH_ALL)),
                    ScriptNum(sc),
                    Fill(IF kc < 0 THEN 0 ELSE kc, KeyC(1)), ScriptNum(kc)) :
        kc \in -1..21, sc \in {-1, 0, 21} } 
    \cup
    UNION { { MultisigStack(<<>>, Fill(sc, DerSig(<<1>>, <<1>>, SIGHASH_ALL)),
                            ScriptNum(sc), Fill(kc, KeyC(1)), ScriptNum(kc)) :
                sc \in {kc, kc + 1} } : kc \in 0..20 }
    \cup
    { MultisigStack(<<>>, <<>>, <<0>>, <<KeyC(1)>>, <<1, 0>>),
      MultisigStack(<<>>, <<>>, <<128>>, <<>>, <<0>>) }

\* stacks with too few elements
ShortStacks ==
    { <<>>, <<ScriptNum(1)>>, <<ScriptNum(0)>>, <<ScriptNum(0), ScriptNum(0)>>,
      <<KeyC(1), ScriptNum(2)>>,
      <<DerSig(<<1>>, <<1>>, SIGHASH_ALL), ScriptNum(1), KeyC(1), ScriptNum(1)>> }

\* stacks of three signatures of which the second is out of order, does not
\* decode, has no candidate key or matches no key
OrderStacks ==
    { MultisigStack(<<>>, <<DerSig(<<2>>, <<2>>, SIGHASH_ALL), second,
                           DerSig(<<1>>, <<1>>, SIGHASH_NONE)>>,
                    ScriptNum(3), <<KeyC(1), KeyC(2), KeyC(1)>>, ScriptNum(3)) :
        second \in MultisigSigs \cup {DerSig(<<3>>, <<3>>, SIGHASH_ALL)} }

\* stacks of a signature and a one-byte blob in the place of a signature
ByteBlobStacks ==
    { MultisigStack(<<>>, sigs, ScriptNum(2), <<KeyC(1), KeyC(2)>>, ScriptNum(2)) :
        sigs \in { <<DerSig(<<1>>, <<1>>, SIGHASH_ALL), blob>> : blob \in {<<0>>, <<5>>} } }

\* scripts that hold pushes of the signatures, of the one-byte blobs and of
\* other data, OP_0 and OP_5, and a push that holds the push of a signature
PushScripts ==
    LET sig == DerSig(<<1>>, <<1>>, SIGHASH_ALL)
    IN  { <<OP_0>> \o bin_script(<<sig>>) \o <<1, 0, OP_1 + 4, 1, 5>> \o <<OP_CHECKMULTISIG>>,
          bin_script(<<bin_script(<<sig>>), sig, <<9>>, sig>>) \o <<OP_CHECKMULTISIG>>,
          <<OP_PUSHDATA1>> \o bin_script(<<sig>>) \o <<OP_CHECKMULTISIG>> }

InitMulti ==
    /\ phase = "ready"
    /\ ToolsIdle
    /\ expected_hash_type = None
    /\ \/ /\ stack \in SmallStacks
          /\ flags \in MultisigFlags
          \* a dummy is read only with NULLDUMMY: a dummy that is not empty
          \* is taken with it, an empty one without it (and with it among
          \* the stacks of counts)
          /\ stack[1] # <<>> <=> flags = {VERIFY_NULLDUMMY}
          /\ tmp_script = MultisigScript
       \/ /\ stack \in CountStacks \cup ShortStacks
          /\ flags \in {{}, {VERIFY_MINIMALDATA}, {VERIFY_NULLDUMMY}}
          /\ tmp_script = MultisigScript
       \/ /\ stack \in OrderStacks
          /\ flags \in {{}, {VERIFY_STRICTENC}}
          /\ tmp_script = MultisigScript
       \/ /\ stack \in ByteBlobStacks
          /\ flags = {}
          /\ tmp_script \in PushScripts
    /\ entry = stack
    /\ outcome = NoOutcome

OpCheckMultiSig ==
    /\ phase = "ready"
    /\ outcome' = op_checkmultisig(stack, expected_hash_type, tmp_script, flags)
    /\ stack' = outcome'.stack
    /\ phase' = "done"
    /\ UNCHANGED <<script, pc, token, data_list, flags, expected_hash_type,
                   tmp_script, entry>>

\* the operands of op_checkmultisig on a stack that holds them all
KeyCount(stk) == int_from_script_bytes(Top(stk), FALSE).value
KeyList(stk) == Popped(Pop(stk), KeyCount(stk))
SigCount(stk) == int_from_script_bytes(Top(Left(stk, KeyCount(stk) + 1)), FALSE).value
SigList(stk) == Popped(Left(stk, KeyCount(stk) + 2), SigCount(stk))
DummyAt(stk) == Len(stk) - KeyCount(stk) - 2 - (IF SigCount(stk) < 0 THEN 0 ELSE SigCount(stk))
HoldsOperands(stk) ==
    /\ Len(stk) >= 1
    /\ KeyCount(stk) \in 0..20
    /\ Len(stk) >= KeyCount(stk) + 2
    /\ SigCount(stk) <= KeyCount(stk)
    /\ DummyAt(stk) >= 1

\* sig_blob_matches(sig_blobs, public_pair_blobs, tmp_script, f, flags) with
\* the default exit_early=False; it leaves the stack alone.  The dummy is no
\* argument of it and NULLDUMMY is not read: the call is made once for them
SigBlobMatches ==
    /\ phase = "ready"
    /\ HoldsOperands(stack)
    /\ stack[DummyAt(stack)] = <<>>
    /\ VERIFY_NULLDUMMY \notin flags
    /\ LET m == sig_blob_matches(SigList(stack), KeyList(stack), tmp_script,
                                 flags, FALSE)
       IN  outcome' = [MultisigOutcome(<<m.exc, m.raised_by>>, stack, m)
                          EXCEPT !.op = "sig_blob_matches"]
    /\ phase' = "matched"
    /\ UNCHANGED <<script, pc, token, data_list, stack, flags,
                   expected_hash_type, tmp_script, entry>>

NextMulti == OpCheckMultiSig \/ SigBlobMatches

SpecMulti == InitMulti /\ [][NextMulti]_vars

----------------------------------------------------------------------------
(* Claims about the script tools *)

\* the length a push opcode at cursor at declares, when its length prefix lies
\* inside the script: the opcode itself up to 0x4b, else the little-endian
\* value of the 1, 2 or 4 bytes after the opcode
PrefixLen(opcode) ==
    IF opcode = OP_PUSHDATA1 THEN 1
    ELSE IF opcode = OP_PUSHDATA2 THEN 2
    ELSE IF opcode = OP_PUSHDATA4 THEN 4 ELSE 0

PrefixInside(scr, at) == at + 1 + PrefixLen(scr[at + 1]) <= Len(scr)

\* a declared length of 2^30 or more fits no script of the model
DeclaredFits(scr, at) ==
    /\ PrefixInside(scr, at)
    /\ PrefixLen(scr[at + 1]) = 4 => scr[at + 5] < 64

DeclaredLen(scr, at) ==
    LET n == PrefixLen(scr[at + 1])
    IN  IF n = 0 THEN scr[at + 1]
        ELSE IF n = 1 THEN scr[at + 2]
        ELSE IF n = 2 THEN scr[at + 2] + 256 * scr[at + 3]
        ELSE scr[at + 2] + 256 * scr[at + 3] + 65536 * scr[at + 4]
             + 16777216 * scr[at + 5]

\* the instruction at cursor at is whole: its length prefix and its data lie
\* inside the script
WellFormedAt(scr, at) ==
    /\ at < Len(scr)
    /\ scr[at + 1] <= OP_PUSHDATA4 =>
          /\ DeclaredFits(scr, at)
          /\ at + 1 + PrefixLen(scr[at + 1]) + DeclaredLen(scr, at) <= Len(scr)

\* what C8 asks of the token get_opcode returns at a cursor inside the script
TokenInBounds(scr, at, tok) ==
    \/ tok.exc = "ScriptError"
    \/ /\ tok.exc = "none"
       /\ at < tok.pc
       /\ tok.pc <= Len(scr)
       /\ tok.has_data =>
             /\ WellFormedAt(scr, at)
             /\ Len(tok.data) = DeclaredLen(scr, at)
             /\ tok.data = SubSeq(scr, tok.pc - Len(tok.data) + 1, tok.pc)

\* C8: at every cursor inside a script get_opcode either raises ScriptError or
\* returns a token whose new cursor lies after the old one and not beyond the
\* script end and whose data has exactly the declared length and lies inside
\* the script, also when the push data or the length prefix is truncated.
C8_GetOpcodeStaysInside ==
    /\ (phase = "script" =>
          \A at \in 0..(Len(script) - 1) : TokenInBounds(script, at, get_opcode(script, at)))
    /\ (token # NoToken => TokenInBounds(script, token.at, token))

\* C9: on an instruction that lies whole inside the script get_opcode returns
\* normally; a push opcode 0x01..0x4b, PUSHDATA1, PUSHDATA2 or PUSHDATA4 yields
\* the declared number of bytes after its (little-endian) length prefix and
\* the cursor after them; opcode 0x00 yields empty data and every opcode above
\* PUSHDATA4 yields None, both with the cursor after the opcode byte.
C9_GetOpcodeClassifies ==
    (token # NoToken /\ WellFormedAt(script, token.at)) =>
        LET at == token.at
            opcode == script[at + 1]
            n == PrefixLen(opcode)
        IN  /\ token.exc = "none"
            /\ token.opcode = opcode
            /\ IF opcode > OP_PUSHDATA4
               THEN ~token.has_data /\ token.pc = at + 1
               ELSE /\ token.has_data
                    /\ token.data = SubSeq(script, at + 1 + n + 1,
                                           at + 1 + n + DeclaredLen(script, at))
                    /\ token.pc = at + 1 + n + DeclaredLen(script, at)
                    /\ opcode = OP_0 => token.data = <<>> /\ token.pc = at + 1

\* C9 is witnessed by the tokens of a PUSHDATA4 and of a PUSHDATA2 whose
\* length needs its second byte
C9_Witness ==
    /\ token.exc = "none"
    /\ token.opcode = OP_PUSHDATA2
    /\ Len(token.data) = 256
    /\ WellFormedAt(script, token.at)

\* the bytes C10 says are written for one data blob
MinimalPush(t) ==
    IF Len(t) = 0 THEN <<OP_0>>
    ELSE IF Len(t) = 1 /\ t[1] \in 1..16 THEN <<OP_1 + (t[1] - 1)>>
    ELSE IF Len(t) <= 75 THEN <<Len(t)>> \o t
    ELSE IF Len(t) <= 255 THEN <<OP_PUSHDATA1, Len(t)>> \o t
    ELSE IF Len(t) <= 65535
    THEN <<OP_PUSHDATA2, Len(t) % 256, Len(t) \div 256>> \o t
    ELSE <<OP_PUSHDATA4, Len(t) % 256, (Len(t) \div 256) % 256,
           (Len(t) \div 65536) % 256, Len(t) \div 16777216>> \o t

\* C10: bin_script writes, for each blob of the data list in order, OP_0 for
\* the empty blob only, OP_v for a one-byte blob of value v in 1..16 only, and
\* otherwise the length byte, PUSHDATA1, PUSHDATA2 or PUSHDATA4 form its
\* length asks for, followed by the blob.
C10_MinimalPushEncoding ==
    phase = "compiled" =>
        script = Concat([i \in 1..Len(data_list) |-> MinimalPush(data_list[i])])

----------------------------------------------------------------------------
(* Claims about op_checksig *)

\* the operands of the handler that has run
KeyOperand == Top(entry)
SigOperand == Top(Pop(entry))
Beneath == Pop(Pop(entry))
CheckSigRan == phase = "done" /\ outcome.op = "op_checksig" /\ Len(entry) >= 2

DerFlagsSet == flags \cap {VERIFY_DERSIG, VERIFY_LOW_S, VERIFY_STRICTENC} # {}
Strict == VERIFY_STRICTENC \in flags

\* a 33-byte compressed or 65-byte uncompressed SEC key, by its shape
WellFormedSec(blob) ==
    \/ Len(blob) = 33 /\ blob[1] \in {2, 3}
    \/ Len(blob) = 65 /\ blob[1] = 4

SigViolatesGrammar == SigOperand # <<>> /\ check_valid_signature(SigOperand) # "none"
SigUndecodable ==
    /\ SigOperand # <<>>
    /\ sigdecode_der(SubSeq(SigOperand, 1, Len(SigOperand) - 1)).exc # "none"
KeyUndecodable == sec_to_public_pair(KeyOperand, Strict).exc # "none"

PushedFalse == outcome.exc = "none" /\ stack = Beneath \o <<VCH_FALSE>>
Aborted == outcome.exc = "ScriptError" /\ stack = Beneath

\* C3 as claimed: for every value of the flags, a signature blob that violates
\* the DER grammar or cannot be decoded, or a public key blob that cannot be
\* decoded, makes op_checksig push false and return normally.
C3_DecodeFailureIsRecoverable ==
    (CheckSigRan /\ (SigViolatesGrammar \/ SigUndecodable \/ KeyUndecodable))
        => PushedFalse

\* a check that the flags enforce fails on the operands
EnforcedCheckFails ==
    \/ Strict /\ ~WellFormedSec(KeyOperand)
    \/ DerFlagsSet /\ SigViolatesGrammar
    \/ Strict /\ SigOperand # <<>>
         /\ (SigOperand[Len(SigOperand)] % 128) \notin {1, 2, 3}
    \/ /\ VERIFY_LOW_S \in flags
       /\ SigOperand # <<>>
       /\ ~SigUndecodable
       /\ check_low_der_signature(
              sigdecode_der(SubSeq(SigOperand, 1, Len(SigOperand) - 1)).sig_pair) # "none"

\* C3 as amended: a signature blob that cannot be decoded or a public key blob
\* that cannot be decoded makes op_checksig push false and return normally
\* unless a check that the flags enforce fails first; such a failure (with
\* DER-only, low-S or strict encoding set, a non-empty signature blob that
\* violates the DER grammar) raises ScriptError and nothing is pushed.
C3_DecodeFailureIsRecoverableUnlessEnforced ==
    CheckSigRan =>
        /\ EnforcedCheckFails => Aborted
        /\ (~EnforcedCheckFails /\ (SigUndecodable \/ KeyUndecodable)) => PushedFalse

C3_Witness ==
    /\ CheckSigRan
    /\ flags = {VERIFY_NULLDUMMY, VERIFY_MINIMALDATA}
    /\ SigUndecodable
    /\ ~KeyUndecodable
    /\ Beneath # <<>>
    /\ PushedFalse

\* C4: with strict encoding set, a public key blob that is not a well-formed
\* 33-byte or 65-byte SEC key makes op_checksig raise ScriptError whatever
\* the signature blob is: nothing is pushed, no digest is asked for, nothing
\* is verified.
C4_StrictKeyEncodingIsFatal ==
    (CheckSigRan /\ Strict /\ ~WellFormedSec(KeyOperand)) =>
        /\ Aborted
        /\ outcome.raised_by = "check_public_key_encoding"
        /\ outcome.digest_calls = <<>>
        /\ outcome.verify_calls = <<>>

C4_Witness ==
    /\ CheckSigRan
    /\ Strict
    /\ ~WellFormedSec(KeyOperand)
    /\ KeyOperand # <<>>
    /\ SigUndecodable
    /\ Aborted

\* the signature and the public key both decode: the try block of op_checksig
\* is left without an exception
BothDecode ==
    /\ ~EnforcedCheckFails
    /\ ~SigUndecodable
    /\ ~KeyUndecodable

DecodedHashType == IF SigOperand = <<>> THEN 0 ELSE SigOperand[Len(SigOperand)]

\* C5: when signature and public key decode and the caller's expected hash
\* type is not None and differs from the decoded one, op_checksig raises
\* ScriptError before any digest is asked for and pushes nothing; when it is
\* None or equal to the decoded one, that error is not raised.
C5_WrongHashTypeIsFatal ==
    (CheckSigRan /\ BothDecode) =>
        IF expected_hash_type # None /\ expected_hash_type # DecodedHashType
        THEN /\ Aborted
             /\ outcome.raised_by = "wrong hash type"
             /\ outcome.digest_calls = <<>>
             /\ outcome.verify_calls = <<>>
        ELSE outcome.raised_by # "wrong hash type"

C5_Witness ==
    /\ CheckSigRan
    /\ BothDecode
    /\ expected_hash_type = SIGHASH_NONE
    /\ DecodedHashType = SIGHASH_ALL
    /\ Aborted
    /\ outcome.raised_by = "wrong hash type"

----------------------------------------------------------------------------
(* Claims about op_checkmultisig and sig_blob_matches *)

MultiSigRan == phase = "done" /\ outcome.op = "op_checkmultisig"
MatchRan == phase = "matched" /\ outcome.op = "sig_blob_matches"

\* both counts on the stack decode under the flags
CountsDecode(stk) ==
    /\ int_from_script_bytes(Top(stk), VERIFY_MINIMALDATA \in flags).exc = "none"
    /\ int_from_script_bytes(Top(Left(stk, KeyCount(stk) + 1)),
                             VERIFY_MINIMALDATA \in flags).exc = "none"

\* what lies under the dummy, and the dummy
UnderDummy(stk) == SubSeq(stk, 1, DummyAt(stk) - 1)
Dummy(stk) == stk[DummyAt(stk)]

\* the signature blob sig is a signature of the script, the supplied
\* signatures dropped, under the key blob key
SigMatchesKey(sig, key, sigs) ==
    LET parsed == parse_signature_blob(sig, flags)
        pp == sec_to_public_pair(key, Strict)
        digest == signature_for_hash_type_f(parsed.signature_type,
                      drop_signatures(tmp_script, sigs, 1).script)
    IN  /\ parsed.exc = "none"
        /\ pp.exc = "none"
        /\ pp.public_pair \in
               possible_public_pairs_for_signature(digest, parsed.sig_pair)

\* the signatures from the i-th on match distinct keys of index from and up,
\* in the order of the signatures
RECURSIVE OrderedMatch(_, _, _, _)
OrderedMatch(sigs, keys, i, from) ==
    IF i > Len(sigs) THEN TRUE
    ELSE \E k \in from..Len(keys) :
             /\ SigMatchesKey(sigs[i], keys[k], sigs)
             /\ OrderedMatch(sigs, keys, i + 1, k + 1)

\* C1: when op_checkmultisig returns, it has pushed true if every supplied
\* signature matches a distinct public key with the matched keys in the
\* order of the signatures, and false in every other case.
C1_TrueIffOrderedMatch ==
    (MultiSigRan /\ outcome.exc = "none") =>
        stack = UnderDummy(entry) \o
                  << IF OrderedMatch(SigList(entry), KeyList(entry), 1, 1)
                     THEN VCH_TRUE ELSE VCH_FALSE >>

\* the entry C2 gives a signature: the index of the first key, not recorded
\* for an earlier signature, that it matches, and -1 when there is none
ClaimedEntry(sig, keys, earlier, sigs) ==
    LET free == { k \in 1..Len(keys) :
                    /\ (k - 1) \notin Elems(earlier)
                    /\ SigMatchesKey(sig, keys[k], sigs) }
    IN  IF free = {} THEN -1
        ELSE (CHOOSE k \in free : \A j \in free : k <= j) - 1

\* C2: without early exit, sig_blob_matches returns one entry for each
\* supplied signature blob, in order: the index of the first key, left to
\* right and skipping the indices recorded for earlier signatures, that the
\* signature matches, and -1 when it does not decode, when no key matches or
\* when it has no candidate key at all.
C2_OneEntryPerSignature ==
    (MatchRan /\ outcome.exc = "none") =>
        LET sigs == SigList(entry)
            keys == KeyList(entry)
            sig_blob_indices == outcome.sig_blob_indices
        IN  /\ Len(sig_blob_indices) = Len(sigs)
            /\ \A i \in 1..Len(sig_blob_indices) :
                   sig_blob_indices[i] =
                       ClaimedEntry(sigs[i], keys,
                                    SubSeq(sig_blob_indices, 1, i - 1), sigs)

\* nothing was matched, no digest was asked for
NothingMatched ==
    /\ outcome.parsed = 0
    /\ outcome.sig_blob_indices = <<>>
    /\ outcome.digest_calls = <<>>

CountErrors == {"key_count not in range 0 to 20", "too many signatures"}

\* C6: a key count outside 0..20 makes op_checkmultisig raise ScriptError,
\* and so does a signature count above the key count; in both cases no
\* signature blob is matched, no digest is asked for and nothing is pushed.
\* With a key count in 0..20 and a signature count in 0..key count neither
\* error is raised.
C6_CountsOutOfRangeAbort ==
    (MultiSigRan /\ Len(entry) >= 1
        /\ int_from_script_bytes(Top(entry), VERIFY_MINIMALDATA \in flags).exc = "none") =>
        LET key_count == KeyCount(entry)
            signature_count == SigCount(entry)
        IN  /\ key_count \notin 0..20 =>
                /\ outcome.exc = "ScriptError"
                /\ outcome.raised_by = "key_count not in range 0 to 20"
                /\ stack = Pop(entry)
                /\ NothingMatched
            /\ (key_count \in 0..20 /\ Len(entry) >= key_count + 2
                  /\ CountsDecode(entry)) =>
                /\ signature_count > key_count =>
                      /\ outcome.exc = "ScriptError"
                      /\ outcome.raised_by = "too many signatures"
                      /\ stack = Left(entry, key_count + 2)
                      /\ NothingMatched
                /\ signature_count \in 0..key_count =>
                      outcome.raised_by \notin CountErrors

C6_Witness ==
    /\ MultiSigRan
    /\ Len(entry) = 44
    /\ KeyCount(entry) = 20
    /\ SigCount(entry) = 21
    /\ outcome.exc = "ScriptError"
    /\ outcome.raised_by = "too many signatures"
    /\ stack = Left(entry, 22)

\* dummy values other than those the stacks are built with
OtherDummies == Dummies \cup {<<0>>, <<1, 2>>}

\* C7: with null-dummy enforcement set, a dummy that is not the empty byte
\* string makes op_checkmultisig raise ScriptError before any signature is
\* matched, the dummy still on the stack and nothing pushed; with the flag
\* clear the dummy is popped and whatever its value the outcome is the same.
C7_NullDummyEnforced ==
    (MultiSigRan /\ HoldsOperands(entry) /\ CountsDecode(entry)) =>
        LET d == DummyAt(entry)
        IN  /\ (VERIFY_NULLDUMMY \in flags /\ Dummy(entry) # <<>>) =>
                /\ outcome.exc = "ScriptError"
                /\ outcome.raised_by = "bad dummy byte in checkmultisig"
                /\ stack = SubSeq(entry, 1, d)
                /\ NothingMatched
            /\ VERIFY_NULLDUMMY \notin flags =>
                /\ SubSeq(stack, 1, d - 1) = UnderDummy(entry)
                /\ Len(stack) = IF outcome.exc = "none" THEN d ELSE d - 1
                /\ \A other \in OtherDummies \ {Dummy(entry)} :
                       outcome = op_checkmultisig([entry EXCEPT ![d] = other],
                                     expected_hash_type, tmp_script, flags)

C7_Witness ==
    /\ MultiSigRan
    /\ HoldsOperands(entry)
    /\ VERIFY_NULLDUMMY \in flags
    /\ Dummy(entry) = <<1>>
    /\ Len(SigList(entry)) = 2
    /\ OrderedMatch(SigList(entry), KeyList(entry), 1, 1)
    /\ outcome.raised_by = "bad dummy byte in checkmultisig"
    /\ stack = SubSeq(entry, 1, DummyAt(entry))

----------------------------------------------------------------------------
(* tx/script/tools.py: compile and disassemble.  A text is a sequence of   *)
(* characters, each a string of length one                                 *)

HexDigits == <<"0", "1", "2", "3", "4", "5", "6", "7", "8", "9",
               "a", "b", "c", "d", "e", "f">>
UpperHex == <<"A", "B", "C", "D", "E", "F">>

\* binascii.hexlify(data).decode("utf8"), also serialize.b2h
hexlify(data) ==
    [i \in 1..(2 * Len(data)) |->
        IF i % 2 = 1 THEN HexDigits[(data[(i + 1) \div 2] \div 16) + 1]
        ELSE HexDigits[(data[i \div 2] % 16) + 1]]

IsHex(c) == (\E i \in 1..16 : HexDigits[i] = c) \/ (\E i \in 1..6 : UpperHex[i] = c)

HexValue(c) ==
    IF \E i \in 1..16 : HexDigits[i] = c
    THEN (CHOOSE i \in 1..16 : HexDigits[i] = c) - 1
    ELSE (CHOOSE i \in 1..6 : UpperHex[i] = c) + 9

\* binascii.unhexlify(t): an odd length or a character that is no hex digit
\* raises binascii.Error
unhexlify(t) ==
    IF Len(t) % 2 = 1 \/ \E i \in 1..Len(t) : ~IsHex(t[i])
    THEN [exc |-> "binascii.Error", data |-> <<>>]
    ELSE [exc |-> "none",
          data |-> [i \in 1..(Len(t) \div 2) |->
                       16 * HexValue(t[2 * i - 1]) + HexValue(t[2 * i])]]

\* "%d" % n for n >= 0
RECURSIVE Dec(_)
Dec(n) == IF n < 10 THEN <<HexDigits[n + 1]>>
          ELSE Dec(n \div 10) \o <<HexDigits[(n % 10) + 1]>>

\* t.encode("utf8") for the characters used here: their ASCII codes
Ord(c) ==
    IF \E i \in 1..10 : HexDigits[i] = c
    THEN 47 + (CHOOSE i \in 1..10 : HexDigits[i] = c)
    ELSE IF \E i \in 11..16 : HexDigits[i] = c
    THEN 86 + (CHOOSE i \in 11..16 : HexDigits[i] = c)
    ELSE IF \E i \in 1..6 : UpperHex[i] = c
    THEN 64 + (CHOOSE i \in 1..6 : UpperHex[i] = c)
    ELSE 63

encode_utf8(t) == [i \in 1..Len(t) |-> Ord(t[i])]

\* s.split(): the maximal runs of characters that are not blank, in order
WordStarts(s) == { i \in 1..Len(s) : s[i] # " " /\ (i = 1 \/ s[i - 1] = " ") }
WordEnd(s, i) ==
    CHOOSE j \in i..Len(s) :
        /\ \A k \in i..j : s[k] # " "
        /\ j = Len(s) \/ s[j + 1] = " "

RECURSIVE words_from(_, _)
words_from(s, starts) ==
    IF starts = {} THEN <<>>
    ELSE LET i == CHOOSE x \in starts : \A y \in starts : x <= y
         IN  <<SubSeq(s, i, WordEnd(s, i))>> \o words_from(s, starts \ {i})

split(s) == words_from(s, WordStarts(s))

\* ' '.join(words)
RECURSIVE join(_)
join(words) ==
    IF words = <<>> THEN <<>>
    ELSE IF Len(words) = 1 THEN words[1]
    ELSE words[1] \o <<" ">> \o join(Tail(words))

\* tx/script/opcodes.py: the mnemonics of the opcodes used here
OP_1NEGATE == 79
OP_DUP == 118
OP_EQUALVERIFY == 136
OP_HASH160 == 169

OpName(suffix) == <<"O", "P", "_">> \o suffix

OPCODE_LIST ==
    { <<OpName(<<"0">>), OP_0>>,
      <<OpName(<<"P", "U", "S", "H", "D", "A", "T", "A", "1">>), OP_PUSHDATA1>>,
      <<OpName(<<"P", "U", "S", "H", "D", "A", "T", "A", "2">>), OP_PUSHDATA2>>,
      <<OpName(<<"P", "U", "S", "H", "D", "A", "T", "A", "4">>), OP_PUSHDATA4>>,
      <<OpName(<<"1", "N", "E", "G", "A", "T", "E">>), OP_1NEGATE>>,
      <<OpName(<<"D", "U", "P">>), OP_DUP>>,
      <<OpName(<<"E", "Q", "U", "A", "L", "V", "E", "R", "I", "F", "Y">>), OP_EQUALVERIFY>>,
      <<OpName(<<"H", "A", "S", "H", "1", "6", "0">>), OP_HASH160>>,
      <<OpName(<<"C", "H", "E", "C", "K", "S", "I", "G">>), OP_CHECKSIG>>,
      <<OpName(<<"C", "H", "E", "C", "K", "M", "U", "L", "T", "I", "S", "I", "G">>), OP_CHECKMULTISIG>> }
    \cup { <<OpName(Dec(v)), OP_1 + (v - 1)>> : v \in 1..16 }

InOpcodeToInt(t) == \E p \in OPCODE_LIST : p[1] = t
OPCODE_TO_INT(t) == (CHOOSE p \in OPCODE_LIST : p[1] = t)[2]

Unknown == <<"?", "?", "?">>

\* INT_TO_OPCODE.get(opcode, "???")
INT_TO_OPCODE(opcode) ==
    IF \E p \in OPCODE_LIST : p[2] = opcode
    THEN (CHOOSE p \in OPCODE_LIST : p[2] = opcode)[1]
    ELSE Unknown

\* one token of compile, lines 104-118: the bytes it writes
compile_token(t) ==
    LET wrote(bs) == [exc |-> "none", script |-> bs]
        raised(exc) == [exc |-> exc, script |-> <<>>]
        inner == IF t[1] = "[" /\ t[Len(t)] = "]" THEN SubSeq(t, 2, Len(t) - 1) ELSE t
        quoted == inner # <<>> /\ inner[1] = "'" /\ inner[Len(inner)] = "'"
        v == IF quoted
             THEN [exc |-> "none", data |-> encode_utf8(SubSeq(inner, 2, Len(inner) - 1))]
             ELSE unhexlify(inner)
    IN  IF InOpcodeToInt(t) THEN wrote(<<OPCODE_TO_INT(t)>>)
        ELSE IF InOpcodeToInt(OpName(t)) THEN wrote(<<OPCODE_TO_INT(OpName(t))>>)
        ELSE IF Len(t) >= 2 /\ t[1] = "0" /\ t[2] = "x"
        THEN LET d == unhexlify(SubSeq(t, 3, Len(t)))
             IN  IF d.exc # "none" THEN raised(d.exc) ELSE wrote(d.data)
        ELSE IF v.exc # "none" THEN raised(v.exc)
        ELSE wrote(write_push_data(<<v.data>>))

\* the for loop of compile over the tokens from the i-th on
RECURSIVE compile_from(_, _)
compile_from(tokens, i) ==
    IF i > Len(tokens) THEN [exc |-> "none", script |-> <<>>]
    ELSE LET first == compile_token(tokens[i])
             rest == compile_from(tokens, i + 1)
         IN  IF first.exc # "none" THEN first
             ELSE IF rest.exc # "none" THEN rest
             ELSE [exc |-> "none", script |-> first.script \o rest.script]

compile(s) == compile_from(split(s), 1)

\* disassemble_for_opcode_data(opcode, data) for the token tok of get_opcode
disassemble_for_opcode_data(tok) ==
    IF tok.has_data /\ Len(tok.data) > 0
    THEN <<"[">> \o hexlify(tok.data) \o <<"]">>
    ELSE INT_TO_OPCODE(tok.opcode)

\* the while loop of opcode_list from the cursor at on
RECURSIVE opcode_list_from(_, _)
opcode_list_from(scr, at) ==
    IF at >= Len(scr) THEN [exc |-> "none", opcodes |-> <<>>]
    ELSE LET tok == get_opcode(scr, at)
         IN  IF tok.exc # "none" THEN [exc |-> tok.exc, opcodes |-> <<>>]
             ELSE LET rest == opcode_list_from(scr, tok.pc)
                  IN  IF rest.exc # "none" THEN rest
                      ELSE [exc |-> "none",
                            opcodes |-> <<disassemble_for_opcode_data(tok)>>
                                            \o rest.opcodes]

opcode_list(scr) == opcode_list_from(scr, 0)

disassemble(scr) ==
    LET opcodes == opcode_list(scr)
    IN  [exc |-> opcodes.exc, text |-> join(opcodes.opcodes)]

\* tx/TxOut.py, standard_tx_out_script, for the hash160 of the address
STANDARD_SCRIPT_OUT(hex) ==
    join(<<OpName(<<"D", "U", "P">>), OpName(<<"H", "A", "S", "H", "1", "6", "0">>), hex,
           OpName(<<"E", "Q", "U", "A", "L", "V", "E", "R", "I", "F", "Y">>), OpName(<<"C", "H", "E", "C", "K", "S", "I", "G">>)>>)

standard_tx_out_script(hash160) == compile(STANDARD_SCRIPT_OUT(hexlify(hash160)))

----------------------------------------------------------------------------
(* compile, disassemble and standard_tx_out_script as a state machine: a   *)
(* script is disassembled and the text compiled again, a text is compiled, *)
(* a pay-to-address script is built and displayed                          *)

MaxTokens == 2

\* the opcodes without data and the data blobs the scripts are built of
PlainOpcodes == {OP_1NEGATE, OP_1, OP_16, OP_DUP, OP_EQUALVERIFY, OP_HASH160,
                 OP_CHECKSIG, OP_CHECKMULTISIG}

PushedBlobs == { <<>>, <<0>>, <<1>>, <<16>>, <<17>>, <<129>>, <<1, 2>>, <<0, 0>>,
                 Fill(20, 7), Fill(75, 171), Fill(76, 1), Fill(255, 3), Fill(256, 2) }

\* the push of a blob as the rule of minimal push data has it: OP_0 for the
\* empty blob, OP_1..OP_16 for one byte 1..16, else the shortest length form
minimal_push(t) ==
    IF Len(t) = 0 THEN <<OP_0>>
    ELSE IF Len(t) = 1 /\ t[1] \in 1..16 THEN <<OP_1 + (t[1] - 1)>>
    ELSE IF Len(t) <= 75 THEN <<Len(t)>> \o t
    ELSE IF Len(t) <= 255 THEN <<OP_PUSHDATA1, Len(t)>> \o t
    ELSE <<OP_PUSHDATA2>> \o pack_le(Len(t), 2) \o t

ScriptItems == { <<op>> : op \in PlainOpcodes } \cup { minimal_push(t) : t \in PushedBlobs }

MinimalScripts == { Concat(items) : items \in SeqsUpTo(ScriptItems, MaxTokens) }

\* non-minimal and torn scripts, which disassemble reads all the same
OtherScripts == { <<1, 1>>, <<OP_PUSHDATA1, 1, 5>>, <<OP_PUSHDATA1, 0>>, <<2, 1>>,
                  <<OP_PUSHDATA1>>, <<80>>, <<255>> }

Tokens ==
    { <<"O", "P", "_", "D", "U", "P">>,
      <<"D", "U", "P">>,
      <<"O", "P", "_", "1">>,
      <<"1">>,
      <<"1", "6">>,
      <<"1", "0">>,
      <<"0">>,
      <<"C", "H", "E", "C", "K", "S", "I", "G">>,
      <<"O", "P", "_", "0">>,
      <<"0", "x", "0", "1">>,
      <<"0", "x", "4", "c">>,
      <<"0", "x">>,
      <<"0", "x", "a", "b", "c", "d">>,
      <<"0", "x", "0">>,
      <<"'", "a", "'">>,
      <<"'", "a", "b", "'">>,
      <<"'", "'">>,
      <<"'">>,
      <<"[", "0", "0", "]">>,
      <<"[", "0", "1", "]">>,
      <<"[", "1", "1", "]">>,
      <<"[", "a", "b", "c", "d", "]">>,
      <<"[", "]">>,
      <<"[", "'", "a", "'", "]">>,
      <<"[", "8", "1", "]">>,
      <<"0", "0">>,
      <<"0", "1">>,
      <<"1", "1">>,
      <<"8", "1">>,
      <<"a", "b", "c", "d">>,
      <<"A", "B", "C", "D">>,
      <<"a", "b", "c">>,
      <<"?", "?", "?">>,
      <<"[">> }

Texts(n) == { join(words) : words \in SeqsUpTo(Tokens, n) }
             \cup { <<" ">> \o t \o <<" ", " ">> : t \in Tokens }

Hash160s == { Fill(20, b) : b \in {0, 1, 16, 116, 255} }
                \cup { [i \in 1..20 |-> 10 * i + k] : k \in 0..3 }

NoText == [op |-> "none", exc |-> "none", text |-> <<>>]

TextIdle ==
    /\ pc = 0
    /\ token = NoToken
    /\ data_list = <<>>
    /\ stack = <<>>
    /\ flags = {}
    /\ expected_hash_type = None
    /\ tmp_script = <<>>

InitText ==
    /\ TextIdle
    /\ \/ /\ phase = "bytes"
          /\ script \in MinimalScripts \cup OtherScripts
          /\ entry = [op |-> "disassemble", arg |-> script]
          /\ outcome = NoText
       \/ /\ phase = "text"
          /\ script = <<>>
          /\ \E s \in Texts(MaxTokens) :
                /\ entry = [op |-> "compile", arg |-> s]
                /\ outcome = [op |-> "source", exc |-> "none", text |-> s]
       \/ /\ phase = "address"
          /\ script = <<>>
          /\ \E h \in Hash160s : entry = [op |-> "standard_tx_out_script", arg |-> h]
          /\ outcome = NoText

\* tools.disassemble(script), as TxOut.__str__ and a user call it
Disassemble ==
    /\ phase = "bytes"
    /\ LET d == disassemble(script)
       IN  outcome' = [op |-> "disassemble", exc |-> d.exc, text |-> d.text]
    /\ phase' = IF outcome'.exc = "none" THEN "text" ELSE "failed"
    /\ UNCHANGED <<script, pc, token, data_list, stack, flags,
                   expected_hash_type, tmp_script, entry>>

\* tools.compile(s) of the text at hand
Compile ==
    /\ phase = "text"
    /\ LET c == compile(outcome.text)
       IN  /\ outcome' = [op |-> "compile", exc |-> c.exc, text |-> outcome.text]
           /\ script' = c.script
    /\ phase' = IF outcome'.exc = "none" THEN "assembled" ELSE "failed"
    /\ UNCHANGED <<pc, token, data_list, stack, flags, expected_hash_type,
                   tmp_script, entry>>

\* standard_tx_out_script(bitcoin_address) for an address of the hash160
StandardTxOutScript ==
    /\ phase = "address"
    /\ LET c == standard_tx_out_script(entry.arg)
       IN  /\ outcome' = [op |-> "standard_tx_out_script", exc |-> c.exc,
                          text |-> STANDARD_SCRIPT_OUT(hexlify(entry.arg))]
           /\ script' = c.script
    /\ phase' = IF outcome'.exc = "none" THEN "bytes" ELSE "failed"
    /\ UNCHANGED <<pc, token, data_list, stack, flags, expected_hash_type,
                   tmp_script, entry>>

NextText == Disassemble \/ Compile \/ StandardTxOutScript

SpecText == InitText /\ [][NextText]_vars

----------------------------------------------------------------------------
(* Claims about compile and disassemble *)

\* C11: a script of known opcodes and minimal data pushes is disassembled
\* without error, its text is compiled without error, and the compiled bytes
\* are the script.
C11_CompileInvertsDisassemble ==
    (entry.op = "disassemble" /\ entry.arg \in MinimalScripts) =>
        /\ phase # "failed"
        /\ phase = "assembled" => script = entry.arg

\* the text C12 gives the pay-to-address script of the hash160 h
PayToAddressText(h) ==
    <<"O", "P", "_", "D", "U", "P", " ", "O", "P", "_", "H", "A", "S", "H", "1", "6", "0", " ">>
    \o hexlify(h) \o
    <<" ", "O", "P", "_", "E", "Q", "U", "A", "L", "V", "E", "R", "I", "F", "Y", " ", "O", "P", "_", "C", "H", "E", "C", "K", "S", "I", "G">>

\* C12: the script standard_tx_out_script builds for a 20-byte hash160 h is
\* disassembled to the mnemonics and the bare lowercase hex of h, joined by
\* single spaces: OP_DUP OP_HASH160 <hex(h)> OP_EQUALVERIFY OP_CHECKSIG.
C12_StandardScriptText ==
    entry.op = "standard_tx_out_script" =>
        /\ phase # "failed"
        /\ phase = "text" => outcome.text = PayToAddressText(entry.arg)

\* the kinds of token C13 tells apart, and the bytes a data token stands for
NamesOpcode(t) == InOpcodeToInt(t) \/ InOpcodeToInt(OpName(t))
IsHexText(t) == unhexlify(t).exc = "none"
IsPrefixedHex(t) ==
    Len(t) >= 2 /\ t[1] = "0" /\ t[2] = "x" /\ IsHexText(SubSeq(t, 3, Len(t)))
IsQuoted(t) == Len(t) >= 2 /\ t[1] = "'" /\ t[Len(t)] = "'"
IsBracketedHex(t) ==
    Len(t) >= 2 /\ t[1] = "[" /\ t[Len(t)] = "]" /\ IsHexText(SubSeq(t, 2, Len(t) - 1))
IsDataToken(t) ==
    ~NamesOpcode(t) /\ (IsPrefixedHex(t) \/ IsQuoted(t) \/ IsBracketedHex(t) \/ IsHexText(t))

TokenBytes(t) ==
    IF IsPrefixedHex(t) THEN unhexlify(SubSeq(t, 3, Len(t))).data
    ELSE IF IsQuoted(t) THEN encode_utf8(SubSeq(t, 2, Len(t) - 1))
    ELSE IF IsBracketedHex(t) THEN unhexlify(SubSeq(t, 2, Len(t) - 1)).data
    ELSE unhexlify(t).data

\* what the one token of the script scr pushes, when scr is one push
PushesOnly(scr, data) ==
    LET tok == get_opcode(scr, 0)
    IN  /\ scr # <<>>
        /\ tok.exc = "none"
        /\ tok.pc = Len(scr)
        /\ IF tok.has_data THEN tok.data = data
           ELSE tok.opcode \in OP_1..OP_16 /\ data = <<tok.opcode - OP_1 + 1>>

ClaimedBytes(t) ==
    IF InOpcodeToInt(t) THEN <<OPCODE_TO_INT(t)>>
    ELSE IF InOpcodeToInt(OpName(t)) THEN <<OPCODE_TO_INT(OpName(t))>>
    ELSE minimal_push(TokenBytes(t))

\* C13: compile writes, for a token that names an opcode with or without the
\* OP_ prefix, that opcode's byte, and for every other token (0x-prefixed hex,
\* a quoted literal, bracketed hex, bare hex) the minimal push of the token's
\* bytes, which read back is one push of those bytes.
C13_CompileTokens ==
    (entry.op = "compile" /\ phase # "text"
        /\ \A i \in 1..Len(split(entry.arg)) :
               NamesOpcode(split(entry.arg)[i]) \/ IsDataToken(split(entry.arg)[i])) =>
        LET tokens == split(entry.arg)
        IN  /\ phase = "assembled"
            /\ script = Concat([i \in 1..Len(tokens) |-> ClaimedBytes(tokens[i])])
            /\ \A i \in 1..Len(tokens) :
                   IsDataToken(tokens[i]) =>
                       PushesOnly(compile_token(tokens[i]).script, TokenBytes(tokens[i]))

----------------------------------------------------------------------------
(* The signature codec as a state machine: one of the checks of            *)
(* tx/script/check_signature.py, or parse_signature_blob, is called on an  *)
(* argument                                                                *)

\* the order of the secp256k1 group (pycoin.ecdsa.secp256k1._r), big endian
secp256k1_r ==
    Fill(15, 255) \o <<254>> \o
    <<186, 174, 220, 230, 175, 72, 160, 59, 191, 210, 94, 140, 208, 54, 65, 65>>

\* floor(a / 2) of a big-endian number
BigHalf(a) ==
    Strip([i \in 1..Len(a) |->
              (a[i] \div 2) + (IF i > 1 /\ a[i - 1] % 2 = 1 THEN 128 ELSE 0)])

\* signature pairs (r, s) with s about the halves of the group order and of
\* the field prime
SValues ==
    LET n == secp256k1_r
        p == secp256k1_p
    IN  { <<1>>, <<2>>, <<255>>, <<1, 0>>, Fill(16, 128), Fill(31, 255),
          Fill(32, 127), <<127>> \o Fill(31, 255), <<128>> \o Fill(31, 0),
          BigHalf(n), BigSub(BigHalf(n), <<1>>), BigSub(n, BigHalf(n)),
          BigSub(n, BigSub(BigHalf(n), <<1>>)), BigSub(n, <<1>>), BigSub(n, <<2>>),
          BigHalf(p), BigSub(p, BigHalf(p)), BigSub(BigHalf(p), <<1>>) }

SigPairs == { <<r, s>> : r \in {<<1>>, BigSub(secp256k1_r, <<1>>)}, s \in SValues }

\* the numbers r and s of the signature blobs: minimal, with a needless or a
\* needed leading zero, negative, zero, empty, and long
DerInts == { <<1>>, <<0>>, <<127>>, <<128>>, <<0, 128>>, <<0, 1>>, <<1, 0>>,
             <<0, 0>>, <<>>, <<1, 2, 3>>, Fill(33, 1), Fill(34, 1) }

DerBlobs == { DerSig(r, s, SIGHASH_ALL) : r \in DerInts, s \in DerInts }

EditBytes == {0, 1, 2, 3, 5, 6, 48, 127, 128, 255}

\* a blob with one byte changed, and a blob cut short
Edited(blob) ==
    { [blob EXCEPT ![i] = v] : i \in 1..Len(blob), v \in EditBytes }
Prefixes(blob) == { SubSeq(blob, 1, k) : k \in 0..Len(blob) }

SmallDerBlobs == { DerSig(r, s, SIGHASH_ALL) : r \in {<<1>>, <<0, 128>>}, s \in {<<1>>, <<0, 128>>} }

SignatureEncodings ==
    DerBlobs
    \cup UNION { Edited(blob) : blob \in {b \in DerBlobs : Len(b) <= 11} }
    \cup UNION { Prefixes(blob) : blob \in SmallDerBlobs }
    \cup { blob \o <<0>> : blob \in SmallDerBlobs }

\* blobs by their last byte
HashTypeBlobs ==
    { <<>> } \cup { <<b>> : b \in 0..255 }
             \cup { <<48, 6, 2, 1, 1, 2, 1, 1, b>> : b \in 0..255 }

\* blobs by their length and first byte
KeyEncodings ==
    { <<>> } \cup { <<fb>> \o Fill(lb - 1, 9) : lb \in 1..66, fb \in {0, 2, 3, 4, 5, 6, 7} }

\* signature blobs for parse_signature_blob: well-formed, with the flaws the
\* checks find, and undecodable
ParsedBlobs ==
    { DerSig(r, s, t) : r \in {<<1>>, <<0, 1>>}, s \in {<<1>>, <<0>> \o HighS, <<128>>},
                        t \in {0, SIGHASH_ALL, SIGHASH_SINGLE, 4, 129} }
    \cup { <<>>, <<SIGHASH_ALL>>, <<48, 6, 2, 1, 1, 2, 1, 1>>, Fill(9, 48) }

SignatureFlags == SUBSET {VERIFY_STRICTENC, VERIFY_DERSIG, VERIFY_LOW_S, VERIFY_NULLDUMMY}

NoResult == [op |-> "none", exc |-> "none", sig_pair |-> <<<<>>, <<>>>>,
             signature_type |-> 0, checks |-> <<>>]

CodecIdle ==
    /\ script = <<>>
    /\ pc = 0
    /\ token = NoToken
    /\ data_list = <<>>
    /\ stack = <<>>
    /\ expected_hash_type = None
    /\ tmp_script = <<>>

InitCodec ==
    /\ phase = "argument"
    /\ CodecIdle
    /\ outcome = NoResult
    /\ \/ /\ flags = {}
          /\ \/ \E sig \in SignatureEncodings :
                   entry = [op |-> "check_valid_signature", arg |-> sig]
             \/ \E sig_pair \in SigPairs :
                   entry = [op |-> "check_low_der_signature", arg |-> sig_pair]
             \/ \E sig \in HashTypeBlobs :
                   entry = [op |-> "check_defined_hashtype_signature", arg |-> sig]
             \/ \E blob \in KeyEncodings :
                   entry = [op |-> "check_public_key_encoding", arg |-> blob]
       \/ /\ flags \in SignatureFlags
          /\ \E sig_blob \in ParsedBlobs :
                entry = [op |-> "parse_signature_blob", arg |-> sig_blob]

Checked(op, exc) == [NoResult EXCEPT !.op = op, !.exc = exc]

CheckValidSignature ==
    /\ phase = "argument"
    /\ entry.op = "check_valid_signature"
    /\ outcome' = Checked(entry.op, check_valid_signature(entry.arg))
    /\ phase' = "called"
    /\ UNCHANGED <<script, pc, token, data_list, stack, flags,
                   expected_hash_type, tmp_script, entry>>

CheckLowDerSignature ==
    /\ phase = "argument"
    /\ entry.op = "check_low_der_signature"
    /\ outcome' = Checked(entry.op, check_low_der_signature(entry.arg))
    /\ phase' = "called"
    /\ UNCHANGED <<script, pc, token, data_list, stack, flags,
                   expected_hash_type, tmp_script, entry>>

CheckDefinedHashtypeSignature ==
    /\ phase = "argument"
    /\ entry.op = "check_defined_hashtype_signature"
    /\ outcome' = Checked(entry.op, check_defined_hashtype_signature(entry.arg))
    /\ phase' = "called"
    /\ UNCHANGED <<script, pc, token, data_list, stack, flags,
                   expected_hash_type, tmp_script, entry>>

CheckPublicKeyEncoding ==
    /\ phase = "argument"
    /\ entry.op = "check_public_key_encoding"
    /\ outcome' = Checked(entry.op, check_public_key_encoding(entry.arg))
    /\ phase' = "called"
    /\ UNCHANGED <<script, pc, token, data_list, stack, flags,
                   expected_hash_type, tmp_script, entry>>

ParseSignatureBlob ==
    /\ phase = "argument"
    /\ entry.op = "parse_signature_blob"
    /\ LET parsed == parse_signature_blob(entry.arg, flags)
       IN  outcome' = [op |-> entry.op, exc |-> parsed.exc,
                       sig_pair |-> parsed.sig_pair,
                       signature_type |-> parsed.signature_type,
                       checks |-> parsed.checks]
    /\ phase' = "called"
    /\ UNCHANGED <<script, pc, token, data_list, stack, flags,
                   expected_hash_type, tmp_script, entry>>

NextCodec ==
    \/ CheckValidSignature
    \/ CheckLowDerSignature
    \/ CheckDefinedHashtypeSignature
    \/ CheckPublicKeyEncoding
    \/ ParseSignatureBlob

SpecCodec == InitCodec /\ [][NextCodec]_vars

----------------------------------------------------------------------------
(* Claims about the signature codec *)

Called(op) == phase = "called" /\ entry.op = op

Raises == outcome.exc = "ScriptError"
ReturnsOrRaises == outcome.exc \in {"none", "ScriptError"}

\* the grammar C14 states, on the bytes of the blob; a leading 0x00 byte is a
\* zero byte in front of a further byte of the same number
ClaimedValid(sig) ==
    LET ls == Len(sig)
    IN  /\ ls \in 9..73
        /\ sig[1] = 48
        /\ sig[2] = ls - 3
        /\ sig[3] = 2
        /\ LET r_len == sig[4]
           IN  /\ r_len # 0
               /\ 5 + r_len < ls
               /\ sig[5 + r_len] = 2
               /\ LET s_len == sig[6 + r_len]
                  IN  /\ s_len # 0
                      /\ r_len + s_len + 7 = ls
                      /\ sig[5] < 128
                      /\ sig[7 + r_len] < 128
                      /\ ~(r_len > 1 /\ sig[5] = 0 /\ sig[6] < 128)
                      /\ ~(s_len > 1 /\ sig[7 + r_len] = 0 /\ sig[8 + r_len] < 128)

\* C14: check_valid_signature returns for the blobs of the DER grammar
\* (length 9..73, 0x30, length byte, 0x02, r, 0x02, s, with r and s not
\* empty, not negative and without a needless leading zero) and raises
\* ScriptError, never another exception, for every other blob.
C14_ValidSignatureGrammar ==
    Called("check_valid_signature") =>
        outcome.exc = IF ClaimedValid(entry.arg) THEN "none" ELSE "ScriptError"

C14_Witness ==
    /\ Called("check_valid_signature")
    /\ entry.arg = <<48, 6, 2, 1, 1, 2, 1, 1, SIGHASH_ALL>>
    /\ ClaimedValid(entry.arg)
    /\ outcome.exc = "none"

\* C15: for 1 <= s < n, n the order of the secp256k1 group,
\* check_low_der_signature raises ScriptError exactly when s exceeds n - s.
C15_LowSAgainstGroupOrder ==
    (Called("check_low_der_signature")
        /\ entry.arg[2] # <<>> /\ BigLess(entry.arg[2], secp256k1_r)) =>
        /\ ReturnsOrRaises
        /\ Raises <=> BigLess(BigSub(secp256k1_r, entry.arg[2]), entry.arg[2])

\* C16: check_defined_hashtype_signature raises ScriptError exactly for the
\* empty blob and for a last byte other than 0x01, 0x02, 0x03, 0x81, 0x82,
\* 0x83, and raises nothing else.
C16_DefinedHashTypes ==
    Called("check_defined_hashtype_signature") =>
        /\ ReturnsOrRaises
        /\ Raises <=> \/ entry.arg = <<>>
                      \/ entry.arg[Len(entry.arg)] \notin {1, 2, 3, 129, 130, 131}

C16_Witness ==
    /\ Called("check_defined_hashtype_signature")
    /\ Len(entry.arg) = 9
    /\ entry.arg[9] = 131
    /\ outcome.exc = "none"

\* C17: check_public_key_encoding returns exactly for a blob of 65 bytes that
\* starts with 0x04 and a blob of 33 bytes that starts with 0x02 or 0x03, and
\* raises ScriptError for every other blob.
C17_PublicKeyEncodings ==
    Called("check_public_key_encoding") =>
        /\ ReturnsOrRaises
        /\ outcome.exc = "none" <=>
              \/ Len(entry.arg) = 65 /\ entry.arg[1] = 4
              \/ Len(entry.arg) = 33 /\ entry.arg[1] \in {2, 3}

C17_Witness ==
    /\ Called("check_public_key_encoding")
    /\ Len(entry.arg) = 65
    /\ entry.arg[1] = 2
    /\ Raises

\* the checks parse_signature_blob has called
Ran(check) == \E i \in 1..Len(outcome.checks) : outcome.checks[i] = check

Decoded(sig_blob) == sigdecode_der(SubSeq(sig_blob, 1, Len(sig_blob) - 1))

\* C18: parse_signature_blob returns ((0, 0), 0) for the empty blob whatever
\* the flags, calling no check.  For another blob it calls
\* check_valid_signature iff DER-only, low-S or strict encoding is set, then
\* check_defined_hashtype_signature iff strict encoding is set, and, the blob
\* decoded, check_low_der_signature iff low-S is set; a check that raises
\* ends the call.  Without flags it never raises ScriptError, and when it
\* returns it returns the decoded (r, s) and the last byte of the blob.
C18_ParseChecksByFlags ==
    Called("parse_signature_blob") =>
        LET sig_blob == entry.arg
            grammar_asked == flags \cap {VERIFY_DERSIG, VERIFY_LOW_S, VERIFY_STRICTENC} # {}
            grammar_ok == ~grammar_asked \/ ClaimedValid(sig_blob)
            hashtype_ok ==
                (VERIFY_STRICTENC \notin flags)
                    \/ (sig_blob[Len(sig_blob)] % 128) \in {SIGHASH_ALL, SIGHASH_NONE, SIGHASH_SINGLE}
        IN  IF sig_blob = <<>>
            THEN /\ outcome.exc = "none"
                 /\ outcome.sig_pair = <<<<>>, <<>>>>
                 /\ outcome.signature_type = 0
                 /\ outcome.checks = <<>>
            ELSE /\ Ran("check_valid_signature") <=> grammar_asked
                 /\ Ran("check_defined_hashtype_signature") <=>
                        (VERIFY_STRICTENC \in flags /\ grammar_ok)
                 /\ Ran("check_low_der_signature") <=>
                        /\ VERIFY_LOW_S \in flags
                        /\ grammar_ok /\ hashtype_ok
                        /\ Decoded(sig_blob).exc = "none"
                 /\ ~grammar_ok => Raises
                 /\ (grammar_ok /\ ~hashtype_ok) => Raises
                 /\ flags \cap {VERIFY_DERSIG, VERIFY_LOW_S, VERIFY_STRICTENC} = {}
                        => ~Raises
                 /\ outcome.exc = "none" =>
                        /\ outcome.sig_pair = Decoded(sig_blob).sig_pair
                        /\ Decoded(sig_blob).exc = "none"
                        /\ outcome.signature_type = sig_blob[Len(sig_blob)]

C18_Witness ==
    /\ Called("parse_signature_blob")
    /\ flags = {VERIFY_LOW_S}
    /\ entry.arg = DerSig(<<1>>, <<0>> \o HighS, SIGHASH_ALL)
    /\ outcome.checks = <<"check_valid_signature", "check_low_der_signature">>
    /\ Raises

----------------------------------------------------------------------------
(* tx/pay_to/ScriptMultisig.py: solve *)

\* encoding.hash160(sec_key): the key of the lookup, one per sec_key
hash160(sec_key) == <<"hash160", sec_key>>

\* db.get(hash160): the entry of the lookup, or None
db_get(db, h) == IF h \in DOMAIN db THEN db[h] ELSE None

\* self._create_script_signature(secret_exponent, sign_value, signature_type):
\* the DER signature of sign_value under the exponent, and the hash type byte
create_script_signature(secret_exponent, sign_value, signature_type) ==
    DerSig(<<secret_exponent>>, <<sign_value>>, signature_type)

\* self._dummy_signature(signature_type): the one byte of the hash type
dummy_signature(signature_type) == <<signature_type>>

\* line 102 with the test never true: every key at hand signs
enough_signatures_never(existing_signatures, n) == FALSE

\* line 102: the test that ends the loop over sec_keys
enough_signatures(existing_signatures, n) == Len(existing_signatures) >= n

\* the loop of lines 101-111 over sec_keys from the i-th on
RECURSIVE sign_from(_, _, _, _, _, _, _)
sign_from(sec_keys, i, n, db, sign_value, signature_type, existing_signatures) ==
    IF i > Len(sec_keys) THEN existing_signatures
    ELSE IF enough_signatures(existing_signatures, n) THEN existing_signatures
    ELSE LET result == db_get(db, hash160(sec_keys[i]))
         IN  IF result = None
             THEN sign_from(sec_keys, i + 1, n, db, sign_value, signature_type,
                            existing_signatures)
             ELSE sign_from(sec_keys, i + 1, n, db, sign_value, signature_type,
                            Append(existing_signatures,
                                   create_script_signature(result, sign_value,
                                                           signature_type)))

\* the loop of lines 113-114
pad_with_dummy(existing_signatures, n, DUMMY_SIGNATURE) ==
    existing_signatures
        \o Fill(IF Len(existing_signatures) < n THEN n - Len(existing_signatures) ELSE 0,
                DUMMY_SIGNATURE)

\* line 116: "OP_0 %s" % " ".join(b2h(s) for s in existing_signatures)
solution_source(existing_signatures) ==
    <<"O", "P", "_", "0", " ">>
        \o join([i \in 1..Len(existing_signatures) |-> hexlify(existing_signatures[i])])

\* kwargs.get(name) is None: the caller gave no such argument
kwargs_missing(kwargs, name) == name \notin DOMAIN kwargs

\* solve(**kwargs) of ScriptMultisig(n, sec_keys)
solve(n, sec_keys, kwargs) ==
    IF kwargs_missing(kwargs, "hash160_lookup")
    THEN [exc |-> "SolvingError", script |-> <<>>]
    ELSE IF ~kwargs_missing(kwargs, "existing_script") /\ kwargs.existing_script # <<>>
    THEN \* line 89 reads the local script, which is bound at line 116 only
         [exc |-> "UnboundLocalError", script |-> <<>>]
    ELSE LET db == kwargs.hash160_lookup
             sign_value == kwargs.sign_value
             signature_type == kwargs.signature_type
             signed == sign_from(sec_keys, 1, n, db, sign_value, signature_type, <<>>)
             existing_signatures ==
                 pad_with_dummy(signed, n, dummy_signature(signature_type))
         IN  compile(solution_source(existing_signatures))

----------------------------------------------------------------------------
(* The solver as a state machine: a multisig descriptor is solved with the *)
(* keys one signer has, then solved again by a further signer who passes   *)
(* the first solution as existing_script                                   *)

SecKeys == {KeyC(1), KeyC(2), KeyC(3)}

SecKeyLists == SeqsUpTo(SecKeys, MaxKeys)

\* the lookups: for some of the keys, the secret exponent of the key
Lookups ==
    { [h \in {hash160(k) : k \in held} |-> h[2][33]] : held \in SUBSET SecKeys }

SolveHashTypes == {SIGHASH_ALL, SIGHASH_SINGLE, SIGHASH_ANYONECANPAY + SIGHASH_NONE}

SignValues == {7}

\* scripts a caller may hand to the first call as existing_script
ExistingScripts == {<<>>, <<OP_0, OP_1>>}

\* the keyword arguments of a call: the lookup and the existing script may be
\* left out
Kwargs(with_db, db, with_existing, existing_script, sign_value, signature_type) ==
    [name \in {"sign_value", "signature_type"}
              \cup (IF with_db THEN {"hash160_lookup"} ELSE {})
              \cup (IF with_existing THEN {"existing_script"} ELSE {}) |->
        CASE name = "sign_value" -> sign_value
          [] name = "signature_type" -> signature_type
          [] name = "hash160_lookup" -> db
          [] name = "existing_script" -> existing_script]

NoSolution == [op |-> "none", exc |-> "none"]

SolveIdle ==
    /\ pc = 0
    /\ token = NoToken
    /\ data_list = <<>>
    /\ stack = <<>>
    /\ flags = {}
    /\ expected_hash_type = None

InitSolve ==
    /\ SolveIdle
    /\ phase = "unsolved"
    /\ script = <<>>
    /\ tmp_script = <<>>
    /\ outcome = NoSolution
    /\ \E sec_keys \in SecKeyLists, n \in 0..MaxKeys, db \in Lookups,
          with_db \in BOOLEAN, with_existing \in BOOLEAN,
          existing_script \in ExistingScripts, sign_value \in SignValues,
          signature_type \in SolveHashTypes :
          /\ ~with_db => db = << >> /\ ~with_existing
          /\ ~with_existing => existing_script = <<>>
          /\ existing_script # <<>> => Len(sec_keys) = n
          /\ entry = [n |-> n, sec_keys |-> sec_keys,
                      kwargs |-> Kwargs(with_db, db, with_existing, existing_script,
                                        sign_value, signature_type),
                      again |-> <<>>]

\* the first signer calls solve
Solve ==
    /\ phase = "unsolved"
    /\ LET s == solve(entry.n, entry.sec_keys, entry.kwargs)
       IN  /\ outcome' = [op |-> "solve", exc |-> s.exc]
           /\ script' = s.script
    /\ phase' = IF outcome'.exc = "none" THEN "solved" ELSE "failed"
    /\ UNCHANGED <<pc, token, data_list, stack, flags, expected_hash_type,
                   tmp_script, entry>>

\* a further signer, with a lookup of their own, calls solve with the first
\* solution as existing_script
SolveAgain ==
    /\ phase = "solved"
    /\ \E db \in Lookups :
          LET kwargs == Kwargs(TRUE, db, TRUE, script, entry.kwargs.sign_value,
                               entry.kwargs.signature_type)
              s == solve(entry.n, entry.sec_keys, kwargs)
          IN  /\ entry' = [entry EXCEPT !.again = <<kwargs>>]
              /\ outcome' = [op |-> "solve again", exc |-> s.exc]
              /\ script' = s.script
    /\ tmp_script' = script
    /\ phase' = IF outcome'.exc = "none" THEN "extended" ELSE "failed"
    /\ UNCHANGED <<pc, token, data_list, stack, flags, expected_hash_type>>

NextSolve == Solve \/ SolveAgain

SpecSolve == InitSolve /\ [][NextSolve]_vars

----------------------------------------------------------------------------
(* Claims about ScriptMultisig.solve *)

\* what the tokens of the script scr push, OP_1 .. OP_16 pushing their number
RECURSIVE Pushed(_, _)
Pushed(scr, at) ==
    IF at >= Len(scr) THEN <<>>
    ELSE LET tok == get_opcode(scr, at)
         IN  IF tok.exc # "none" THEN <<"unreadable">>
             ELSE <<IF tok.has_data THEN tok.data
                    ELSE IF tok.opcode \in OP_1..OP_16 THEN <<tok.opcode - OP_1 + 1>>
                    ELSE "no push">> \o Pushed(scr, tok.pc)

HasLookup(kwargs) == ~kwargs_missing(kwargs, "hash160_lookup")
NoExistingScript(kwargs) ==
    kwargs_missing(kwargs, "existing_script") \/ kwargs.existing_script = <<>>

\* the keys of sec_keys, in the order of the list, the lookup has an entry for
Available(sec_keys, db) == SelectSeq(sec_keys, LAMBDA k : hash160(k) \in DOMAIN db)

\* the signature of the key k under the lookup db
SignatureOf(k, db, kwargs) ==
    create_script_signature(db[hash160(k)], kwargs.sign_value, kwargs.signature_type)

\* the n slots of the claim: the signatures of the first n available keys,
\* then dummies
ClaimedSlots(n, sec_keys, kwargs) ==
    LET db == kwargs.hash160_lookup
        keys == Available(sec_keys, db)
        real == [i \in 1..Min(n, Len(keys)) |-> SignatureOf(keys[i], db, kwargs)]
    IN  real \o Fill(n - Len(real), dummy_signature(kwargs.signature_type))

FirstSolveRan == outcome.op = "solve" /\ phase \in {"solved", "failed"}

\* C19: solve with a key lookup and no existing script returns the compiled
\* script OP_0 followed by exactly n signature pushes: the signatures of the
\* keys of sec_keys the lookup has an entry for, in the order of the key list
\* and at most n of them (keys without an entry are passed over, no error),
\* then the dummy repeated to fill the n slots.
C19_SolveFillsSlots ==
    (FirstSolveRan /\ HasLookup(entry.kwargs) /\ NoExistingScript(entry.kwargs)) =>
        LET slots == ClaimedSlots(entry.n, entry.sec_keys, entry.kwargs)
        IN  /\ outcome.exc = "none"
            /\ Len(slots) = entry.n
            /\ script = <<OP_0>> \o bin_script(slots)
            /\ Pushed(script, 0) = <<<<>>>> \o slots

\* 2 of 3 with an entry for the second key only: its signature, then a dummy
C19_Witness ==
    /\ FirstSolveRan
    /\ phase = "solved"
    /\ entry.n = 2
    /\ entry.sec_keys = <<KeyC(1), KeyC(2), KeyC(3)>>
    /\ HasLookup(entry.kwargs)
    /\ DOMAIN entry.kwargs.hash160_lookup = {hash160(KeyC(2))}
    /\ entry.kwargs.signature_type = SIGHASH_ALL
    /\ Pushed(script, 0) = << <<>>, DerSig(<<2>>, <<7>>, SIGHASH_ALL), <<SIGHASH_ALL>> >>

SecondSolveRan == outcome.op = "solve again" /\ entry.again # <<>>

\* the real signatures of the first solution
FirstReal ==
    LET db == entry.kwargs.hash160_lookup
        keys == Available(entry.sec_keys, db)
    IN  [i \in 1..Min(entry.n, Len(keys)) |-> SignatureOf(keys[i], db, entry.kwargs)]

\* the first signer had fewer than n of the keys, the second has further ones
Incremental ==
    /\ Len(Available(entry.sec_keys, entry.kwargs.hash160_lookup)) < entry.n
    /\ DOMAIN entry.again[1].hash160_lookup \ DOMAIN entry.kwargs.hash160_lookup # {}

\* C20: solving with fewer than n keys and solving again with the first result
\* as existing_script and further keys succeeds, returns n signature slots
\* again, and keeps every real signature of the first result, in its order.
C20_IncrementalSolve ==
    (SecondSolveRan /\ Incremental) =>
        /\ outcome.exc = "none"
        /\ phase = "extended"
        /\ Len(Pushed(script, 0)) = entry.n + 1
        /\ \E at \in [1..Len(FirstReal) -> 2..(entry.n + 1)] :
              /\ \A i \in 1..Len(FirstReal) : Pushed(script, 0)[at[i]] = FirstReal[i]
              /\ \A i, j \in 1..Len(FirstReal) : i < j => at[i] < at[j]

----------------------------------------------------------------------------
(* tx/pay_to/ScriptMultisig.py: script and from_script *)

\* lines 59-61: "%d %s %d OP_CHECKMULTISIG" % (n, " ".join(public_keys), len(public_keys))
script_source(n, sec_keys) ==
    Dec(n) \o <<" ">>
        \o join([i \in 1..Len(sec_keys) |-> hexlify(sec_keys[i])])
        \o <<" ">> \o Dec(Len(sec_keys)) \o <<" ">>
        \o OpName(<<"C", "H", "E", "C", "K", "M", "U", "L", "T", "I", "S", "I", "G">>)

\* ScriptMultisig(n, sec_keys).script()
multisig_script(n, sec_keys) == compile(script_source(n, sec_keys))

NoDescriptor(exc) == [exc |-> exc, n |-> 0, sec_keys |-> <<>>]

\* line 27: not OP_1 <= opcode < OP_16
n_opcode_invalid(opcode) == ~(OP_1 <= opcode /\ opcode < OP_16)

\* lines 37-47 of from_script, the key loop having ended at the token tok
from_script_tail(scr, n, sec_keys, tok) ==
    LET m == tok.opcode + (1 - OP_1)
    IN  IF n > m \/ Len(sec_keys) # m THEN NoDescriptor("ValueError")
        ELSE LET last == get_opcode(scr, tok.pc)
             IN  IF last.exc # "none" THEN NoDescriptor(last.exc)
                 ELSE IF last.opcode # OP_CHECKMULTISIG THEN NoDescriptor("ValueError")
                 ELSE IF last.pc # Len(scr) THEN NoDescriptor("ValueError")
                 ELSE [exc |-> "none", n |-> n, sec_keys |-> sec_keys]

\* the loop of lines 31-36 with the cursor at at; get_opcode returns None as
\* the data of an opcode above OP_PUSHDATA4, and len(None) raises TypeError
RECURSIVE from_script_keys(_, _, _, _)
from_script_keys(scr, n, sec_keys, at) ==
    LET tok == get_opcode(scr, at)
    IN  IF tok.exc # "none" THEN NoDescriptor(tok.exc)
        ELSE IF ~tok.has_data THEN NoDescriptor("TypeError")
        ELSE IF Len(tok.data) < 33 \/ Len(tok.data) > 120
        THEN from_script_tail(scr, n, sec_keys, tok)
        ELSE from_script_keys(scr, n, Append(sec_keys, tok.data), tok.pc)

\* ScriptMultisig.from_script(script)
from_script(scr) ==
    LET first == get_opcode(scr, 0)
    IN  IF first.exc # "none" THEN NoDescriptor(first.exc)
        ELSE IF n_opcode_invalid(first.opcode) THEN NoDescriptor("ValueError")
        ELSE from_script_keys(scr, first.opcode + (1 - OP_1), <<>>, first.pc)

----------------------------------------------------------------------------
(* The multisig descriptor as a state machine: a descriptor is written as  *)
(* its script, and a script is read back as a descriptor                   *)

MaxPubKeys == 17

\* the i-th public key, compressed or uncompressed
PubKey(i, compressed) == IF compressed THEN KeyC(i) ELSE KeyU(i)

\* key lists of m keys: all compressed, all uncompressed, or in turn
PubKeyLists(m) ==
    { [i \in 1..m |-> PubKey(i, kind = "compressed" \/ (kind = "mixed" /\ i % 2 = 1))] :
        kind \in {"compressed", "uncompressed", "mixed"} }

\* scripts of other hands: the template with a pushed count, with no count,
\* with a trailing byte, with the wrong last opcode
ForeignScripts ==
    LET keys == bin_script(<<KeyC(1), KeyC(2)>>)
    IN  { <<>>, <<OP_1>>, <<OP_0>> \o keys \o <<OP_1 + 1, OP_CHECKMULTISIG>>,
          <<OP_1>> \o keys \o <<1, 2, OP_CHECKMULTISIG>>,
          <<OP_1>> \o keys \o <<OP_0, OP_CHECKMULTISIG>>,
          <<OP_1>> \o keys \o <<OP_1 + 1, OP_CHECKSIG>>,
          <<OP_1>> \o keys \o <<OP_1 + 1, OP_CHECKMULTISIG, OP_0>>,
          <<OP_1>> \o keys \o <<OP_1 + 1>>,
          <<OP_1>> \o keys,
          <<OP_16>> \o keys \o <<OP_1 + 1, OP_CHECKMULTISIG>>,
          <<OP_1 + 2>> \o keys \o <<OP_1 + 1, OP_CHECKMULTISIG>>,
          <<OP_1, 33, 2>> }

DescriptorIdle ==
    /\ pc = 0
    /\ token = NoToken
    /\ data_list = <<>>
    /\ stack = <<>>
    /\ flags = {}
    /\ expected_hash_type = None
    /\ tmp_script = <<>>

InitDescriptor ==
    /\ DescriptorIdle
    /\ outcome = NoDescriptor("none")
    /\ \/ /\ phase = "descriptor"
          /\ script = <<>>
          /\ \E m \in 0..MaxPubKeys, n \in 0..MaxPubKeys :
             \E sec_keys \in PubKeyLists(m) :
                /\ n <= m + 1
                /\ entry = [op |-> "script", n |-> n, sec_keys |-> sec_keys]
       \/ /\ phase = "script"
          /\ script \in ForeignScripts
          /\ entry = [op |-> "from_script", n |-> 0, sec_keys |-> <<>>]

\* descriptor.script()
Script ==
    /\ phase = "descriptor"
    /\ LET s == multisig_script(entry.n, entry.sec_keys)
       IN  /\ script' = s.script
           /\ phase' = IF s.exc = "none" THEN "script" ELSE "failed"
           /\ outcome' = NoDescriptor(s.exc)
    /\ UNCHANGED <<pc, token, data_list, stack, flags, expected_hash_type,
                   tmp_script, entry>>

\* ScriptMultisig.from_script(script)
FromScript ==
    /\ phase = "script"
    /\ outcome' = from_script(script)
    /\ phase' = IF outcome'.exc = "none" THEN "read" ELSE "failed"
    /\ UNCHANGED <<script, pc, token, data_list, stack, flags, expected_hash_type,
                   tmp_script, entry>>

NextDescriptor == Script \/ FromScript

SpecDescriptor == InitDescriptor /\ [][NextDescriptor]_vars

----------------------------------------------------------------------------
(* Claims about the multisig descriptor *)

\* the descriptors of the template: 1 <= n <= m <= 20 keys
InTemplate == entry.op = "script" /\ 1 <= entry.n /\ entry.n <= Len(entry.sec_keys)
                  /\ Len(entry.sec_keys) <= 20

\* the opcode or minimal push that stands for the count v
CountBytes(v) == IF v <= 16 THEN <<OP_N(v)>> ELSE <<1, v>>

TemplateBytes(n, sec_keys) ==
    CountBytes(n) \o bin_script(sec_keys) \o CountBytes(Len(sec_keys))
        \o <<OP_CHECKMULTISIG>>

\* C21: script() of a descriptor with 1 <= n <= m <= 20 keys is OP_<n>, one
\* push per key in order, OP_<m>, OP_CHECKMULTISIG; from_script of those bytes
\* returns a descriptor of the same n and the same keys; and from_script only
\* returns descriptors with as many keys as the encoded m and n <= m.
C21_ScriptRoundTrip ==
    /\ (InTemplate /\ phase # "descriptor") =>
           /\ script = TemplateBytes(entry.n, entry.sec_keys)
           /\ phase # "script" =>
                  /\ phase = "read"
                  /\ outcome.n = entry.n
                  /\ outcome.sec_keys = entry.sec_keys
    /\ phase = "read" => outcome.n <= Len(outcome.sec_keys)

----------------------------------------------------------------------------
(* Claims about the early exit and the digest cache of sig_blob_matches *)

\* op_checkmultisig has called sig_blob_matches with exit_early=True and it
\* returned
EarlyMatchRan ==
    /\ MultiSigRan
    /\ outcome.exc = "none"
    /\ HoldsOperands(entry)

\* the digest sig_blob_matches asks for, for a hash type
DigestOf(signature_type, sigs) ==
    signature_for_hash_type_f(signature_type, drop_signatures(tmp_script, sigs, 1).script)

Undecodable(sig) == parse_signature_blob(sig, flags).exc = "UnexpectedDER"

NoCandidates(sig, sigs) ==
    LET parsed == parse_signature_blob(sig, flags)
    IN  possible_public_pairs_for_signature(DigestOf(parsed.signature_type, sigs),
                                            parsed.sig_pair) = {}

\* the i-th signature ends an early-exit run whose earlier signatures
\* recorded the indices earlier
StopsAt(i, sigs, keys, earlier) ==
    \/ Undecodable(sigs[i])
    \/ NoCandidates(sigs[i], sigs)
    \/ ClaimedEntry(sigs[i], keys, earlier, sigs) = -1
    \/ /\ earlier # <<>>
       /\ ClaimedEntry(sigs[i], keys, earlier, sigs) <= earlier[Len(earlier)]

\* C23: in early-exit mode sig_blob_matches stops at the first signature that
\* records no match (it does not decode, has no candidate key, or matches no
\* unmatched key) or whose index is not above the previous one: no later
\* signature is decoded, no digest is asked for a later signature, and the
\* list returned is a prefix of the list the call without early exit returns.
C23_EarlyExitStopsAtFirstFailure ==
    EarlyMatchRan =>
        LET sigs == SigList(entry)
            keys == KeyList(entry)
            early == outcome.sig_blob_indices
            full == sig_blob_matches(sigs, keys, tmp_script, flags, FALSE)
        IN  /\ outcome.parsed <= Len(sigs)
            /\ \A i \in 1..(outcome.parsed - 1) :
                   /\ ~StopsAt(i, sigs, keys, SubSeq(early, 1, i - 1))
                   /\ early[i] = ClaimedEntry(sigs[i], keys, SubSeq(early, 1, i - 1), sigs)
            /\ (outcome.parsed >= 1 /\ outcome.parsed < Len(sigs)) =>
                   StopsAt(outcome.parsed, sigs, keys,
                           SubSeq(early, 1, outcome.parsed - 1))
            /\ \A k \in 1..Len(outcome.digest_calls) :
                   \E i \in 1..outcome.parsed :
                       /\ ~Undecodable(sigs[i])
                       /\ outcome.digest_calls[k] =
                              DigestOf(parse_signature_blob(sigs[i], flags).signature_type,
                                       sigs)
            /\ full.exc = "none" =>
                   /\ Len(early) <= Len(full.sig_blob_indices)
                   /\ early = SubSeq(full.sig_blob_indices, 1, Len(early))

\* three signatures, the second matches a key before the key of the first:
\* the third is never decoded and its hash type never asked for
C23_Witness ==
    /\ EarlyMatchRan
    /\ SigList(entry) = <<DerSig(<<2>>, <<2>>, SIGHASH_ALL),
                          DerSig(<<1>>, <<1>>, SIGHASH_ALL),
                          DerSig(<<1>>, <<1>>, SIGHASH_NONE)>>
    /\ KeyList(entry) = <<KeyC(1), KeyC(2), KeyC(1)>>
    /\ outcome.parsed = 2
    /\ outcome.sig_blob_indices = <<1, 0>>
    /\ Len(outcome.digest_calls) = 1
    /\ sig_blob_matches(SigList(entry), KeyList(entry), tmp_script, flags, FALSE)
           .sig_blob_indices = <<1, 0, 2>>

\* sig_blob_matches ran, with or without early exit, and returned
AnyMatchRan ==
    /\ (MultiSigRan \/ MatchRan)
    /\ outcome.exc = "none"
    /\ HoldsOperands(entry)

\* C24: within one call of sig_blob_matches the digest is asked for at most
\* once for each hash type, only for hash types of signatures that decoded,
\* and with the script all signatures are dropped from; a signature that did
\* not decode asks for none.
C24_DigestOncePerHashType ==
    AnyMatchRan =>
        LET sigs == SigList(entry)
            calls == outcome.digest_calls
        IN  /\ \A j, k \in 1..Len(calls) :
                   calls[j].hash_type = calls[k].hash_type => j = k
            /\ \A k \in 1..Len(calls) :
                   \E i \in 1..Len(sigs) :
                       /\ ~Undecodable(sigs[i])
                       /\ calls[k] = DigestOf(parse_signature_blob(sigs[i], flags)
                                                  .signature_type, sigs)
            /\ (\A i \in 1..Len(sigs) : Undecodable(sigs[i])) => calls = <<>>

\* two decoded signatures of one hash type, one digest
C24_Witness ==
    /\ AnyMatchRan
    /\ SigList(entry) = <<DerSig(<<1>>, <<1>>, SIGHASH_ALL), DerSig(<<2>>, <<2>>, SIGHASH_ALL)>>
    /\ outcome.parsed = 2
    /\ Len(outcome.digest_calls) = 1
    /\ outcome.digest_calls[1].hash_type = SIGHASH_ALL

----------------------------------------------------------------------------
(* Claims about the subscript the digest is asked for *)

\* the instructions of the script scr from the cursor at on, as get_opcode
\* reads them
RECURSIVE Instructions(_, _)
Instructions(scr, at) ==
    IF at >= Len(scr) THEN <<>>
    ELSE LET tok == get_opcode(scr, at)
         IN  IF tok.exc # "none" \/ tok.pc <= at THEN <<>>
             ELSE <<[bytes |-> Slice(scr, at, tok.pc), tok |-> tok]>>
                      \o Instructions(scr, tok.pc)

\* the instruction pushes the blob, whatever the encoding of the push
PushesBlob(ins, blob) ==
    IF ins.tok.has_data THEN ins.tok.data = blob
    ELSE ins.tok.opcode \in OP_1..OP_16 /\ blob = <<ins.tok.opcode - OP_1 + 1>>

\* the instruction is the minimal push of the blob
IsMinimalPush(ins, blob) == ins.bytes = minimal_push(blob)

\* the subscripts the claim allows for the digest: every instruction that
\* pushes no consumed blob is kept, every minimal push of a consumed blob is
\* dropped, in the order of the script
AllowedSubscripts(scr, blobs) ==
    LET ins == Instructions(scr, 0)
        must_keep == { j \in 1..Len(ins) : \A i \in 1..Len(blobs) : ~PushesBlob(ins[j], blobs[i]) }
        must_drop == { j \in 1..Len(ins) : \E i \in 1..Len(blobs) : IsMinimalPush(ins[j], blobs[i]) }
        free == (1..Len(ins)) \ (must_keep \cup must_drop)
    IN  { Concat([j \in 1..Len(ins) |->
                     IF j \in must_keep \cup kept THEN ins[j].bytes ELSE <<>>]) :
            kept \in SUBSET free }

\* C25: every digest sig_blob_matches asks for is asked with the subscript
\* from which the pushes of all supplied signature blobs are removed and in
\* which every other instruction is kept, in order and byte for byte;
\* delete_subscript removes whole instructions only, and applied twice it
\* gives what it gives applied once.
C25_DigestSubscript ==
    AnyMatchRan =>
        LET sigs == SigList(entry)
            once(i) == delete_subscript(tmp_script, bin_script(<<sigs[i]>>))
        IN  /\ \A k \in 1..Len(outcome.digest_calls) :
                   outcome.digest_calls[k].script \in AllowedSubscripts(tmp_script, sigs)
            /\ \A i \in 1..Len(sigs) :
                   once(i).exc = "none" =>
                       /\ once(i).script \in AllowedSubscripts(tmp_script, <<sigs[i]>>)
                       /\ delete_subscript(once(i).script, bin_script(<<sigs[i]>>)) = once(i)

----------------------------------------------------------------------------
(* Claims about the stack effect of the handlers *)

Boolean(blob) == blob \in {VCH_TRUE, VCH_FALSE}

\* the stack stk with its n top elements removed
Without(stk, n) == SubSeq(stk, 1, Len(stk) - n)

\* C26: when op_checksig returns it has removed the top two elements and
\* pushed one, true or false; when op_checkmultisig returns it has removed
\* key_count + signature_count + 3 elements and pushed one, true or false;
\* the elements beneath are unchanged.
C26_StackEffect ==
    /\ (phase = "done" /\ outcome.op = "op_checksig" /\ outcome.exc = "none") =>
           /\ Len(entry) >= 2
           /\ Pop(stack) = Without(entry, 2)
           /\ Boolean(Top(stack))
    /\ (MultiSigRan /\ outcome.exc = "none") =>
           /\ Len(entry) >= KeyCount(entry) + SigCount(entry) + 3
           /\ Pop(stack) = Without(entry, KeyCount(entry) + SigCount(entry) + 3)
           /\ Boolean(Top(stack))

\* C27: op_checkmultisig never pushes true when the signature count read from
\* the stack is negative.
C27_NegativeSignatureCount ==
    (MultiSigRan /\ outcome.exc = "none" /\ SigCount(entry) < 0) =>
        Top(stack) # VCH_TRUE

----------------------------------------------------------------------------
(* wallet.py: Wallet.public_copy, _subkey, subkey, subkey_for_path,        *)
(* subkeys_for_path, children.  A Python integer is kept as its sign and   *)
(* its magnitude, a big-endian byte string without leading zero bytes      *)

PyInt(neg, mag) == [neg |-> neg /\ Strip(mag) # <<>>, mag |-> Strip(mag)]

\* the Python integer of a small number of the model
RECURSIVE NatBytes(_)
NatBytes(n) == IF n = 0 THEN <<>> ELSE NatBytes(n \div 256) \o <<n % 256>>
FromInt(n) == IF n < 0 THEN PyInt(TRUE, NatBytes(-n)) ELSE PyInt(FALSE, NatBytes(n))

\* bs * k + c, for c < 256
RECURSIVE MulAdd(_, _, _)
MulAdd(bs, k, c) ==
    IF bs = <<>> THEN (IF c = 0 THEN <<>> ELSE <<c>>)
    ELSE LET v == bs[Len(bs)] * k + c
         IN  MulAdd(SubSeq(bs, 1, Len(bs) - 1), k, v \div 256) \o <<v % 256>>

IsDigit(c) == \E i \in 1..10 : HexDigits[i] = c

RECURSIVE DecimalValue(_, _)
DecimalValue(digits, acc) ==
    IF digits = <<>> THEN acc
    ELSE DecimalValue(Tail(digits), MulAdd(acc, 10, HexValue(Head(digits))))

\* int(v) for a text v: an optional sign and decimal digits, ValueError for
\* every other text
int(v) ==
    LET signed == v # <<>> /\ v[1] \in {"-", "+"}
        digits == IF signed THEN Tail(v) ELSE v
    IN  IF digits = <<>> \/ \E k \in 1..Len(digits) : ~IsDigit(digits[k])
        THEN [exc |-> "ValueError", value |-> PyInt(FALSE, <<>>)]
        ELSE [exc |-> "none",
              value |-> PyInt(signed /\ v[1] = "-", DecimalValue(digits, <<>>))]

\* s.split(sep): the fields between the separators, empty ones included; with
\* limit = 1 only the first separator splits (s.split(sep, 1))
RECURSIVE split_on(_, _, _)
split_on(s, sep, limit) ==
    LET hits == { k \in 1..Len(s) : s[k] = sep }
    IN  IF hits = {} \/ limit = 0 THEN <<s>>
        ELSE LET k == CHOOSE x \in hits : \A y \in hits : x <= y
             IN  <<SubSeq(s, 1, k - 1)>>
                     \o split_on(SubSeq(s, k + 1, Len(s)), sep, limit - 1)

\* sep.join(fields)
RECURSIVE join_with(_, _)
join_with(fields, sep) ==
    IF fields = <<>> THEN <<>>
    ELSE IF Len(fields) = 1 THEN fields[1]
    ELSE fields[1] \o <<sep>> \o join_with(Tail(fields), sep)

\* struct.pack(">l", i) for i < 0: the four bytes of 2^32 + i, struct.error
\* below -2^31
pack_signed(i) ==
    IF BigLess(<<128, 0, 0, 0>>, i.mag) THEN [exc |-> "struct.error", bytes |-> <<>>]
    ELSE [exc |-> "none", bytes |-> PadTo(BigSub(<<1, 0, 0, 0, 0>>, i.mag), 4)]

\* struct.pack(">L", (i & 0x7fffffff) | (0x80000000 if is_prime else 0)), i >= 0
pack_masked(i, is_prime) ==
    LET from == IF Len(i.mag) > 4 THEN Len(i.mag) - 3 ELSE 1
        low == PadTo(SubSeq(i.mag, from, Len(i.mag)), 4)
    IN  <<(low[1] % 128) + (IF is_prime THEN 128 ELSE 0), low[2], low[3], low[4]>>

\* a node: whether it holds the private key, its depth, and the child
\* numbers from the root, which stand for its keys and chain code
Node(is_private, child_numbers) ==
    [is_private |-> is_private, depth |-> Len(child_numbers),
     child_numbers |-> child_numbers]

\* ecdsa.is_public_pair_valid for the key of a derived node: the keys of the
\* child numbers that end in 00 00 00 07 count as invalid
key_invalid(child_numbers) ==
    child_numbers # <<>> /\ child_numbers[Len(child_numbers)] = <<0, 0, 0, 7>>

NoNode == Node(FALSE, <<"none">>)
Raise(exc) == [exc |-> exc, node |-> NoNode]
Return(node) == [exc |-> "none", node |-> node]

\* Wallet.__init__ as public_copy and _subkey call it
new_wallet(is_private, child_numbers, with_secret_exponent, with_public_pair) ==
    IF is_private /\ with_public_pair THEN Raise("PublicPrivateMismatchError")
    ELSE IF ~is_private /\ with_secret_exponent THEN Raise("PublicPrivateMismatchError")
    ELSE IF key_invalid(child_numbers) THEN Raise("InvalidKeyGeneratedError")
    ELSE Return(Node(is_private, child_numbers))

\* Wallet.public_copy
public_copy(self) == new_wallet(FALSE, self.child_numbers, FALSE, TRUE)

\* line 248 left out: a public node derives prime children
prime_refused_never(self, is_prime) == FALSE

\* lines 247-250
prime_refused(self, is_prime) == is_prime /\ ~self.is_private

\* Wallet._subkey(i, is_prime, as_private)
subkey_derive(self, i, is_prime, as_private) ==
    LET packed == pack_signed(i)
        prime == i.neg \/ is_prime
        i_as_bytes == IF i.neg THEN packed.bytes ELSE pack_masked(i, is_prime)
    IN  IF i.neg /\ packed.exc # "none" THEN Raise(packed.exc)
        ELSE IF prime_refused(self, prime) THEN Raise("PublicPrivateMismatchError")
        ELSE IF as_private /\ ~self.is_private
        THEN \* line 267: a public node has no attribute secret_exponent
             Raise("AttributeError")
        ELSE new_wallet(as_private, Append(self.child_numbers, i_as_bytes),
                        as_private, ~as_private)

\* Body of a value that is computed once
With(value, Body(_)) == CHOOSE y \in {Body(x) : x \in {value}} : TRUE

\* Wallet.subkey(i, is_prime, as_private) of a node with the subkey_cache
\* cache; as_private is "None", TRUE or FALSE.  The cache it leaves is given too
subkey(self, cache, i, is_prime, as_private) ==
    LET private == IF as_private = "None" THEN self.is_private ELSE as_private = "True"
        lookup == <<i, is_prime, private>>
    IN  IF \E e \in cache : e[1] = lookup
        THEN [exc |-> "none", node |-> (CHOOSE e \in cache : e[1] = lookup)[2],
              cache |-> cache]
        ELSE With(subkey_derive(self, i, is_prime, private), LAMBDA derived :
                 [exc |-> derived.exc, node |-> derived.node,
                  cache |-> IF derived.exc = "none"
                            THEN cache \cup {<<lookup, derived.node>>}
                            ELSE cache])

\* v[-1] in "'p"
ends_prime(v) == v[Len(v)] \in {"'", "p"}

\* the for loop of subkey_for_path over the invocations from the k-th on; the
\* receiver of the first call is self with its cache, later receivers are the
\* nodes just derived
RECURSIVE path_walk(_, _, _, _)
path_walk(key, cache, invocations, k) ==
    IF k > Len(invocations) THEN [exc |-> "none", node |-> key, cache |-> cache]
    ELSE IF invocations[k] = <<>>
    THEN [exc |-> "IndexError", node |-> NoNode, cache |-> cache]
    ELSE LET v == invocations[k]
             is_prime == ends_prime(v)
         IN  With(int(IF is_prime THEN SubSeq(v, 1, Len(v) - 1) ELSE v), LAMBDA number :
               IF number.exc # "none"
               THEN [exc |-> number.exc, node |-> NoNode, cache |-> cache]
               ELSE With(subkey(key, cache, number.value, is_prime,
                                IF key.is_private THEN "True" ELSE "False"), LAMBDA step :
                      IF step.exc # "none"
                      THEN [exc |-> step.exc, node |-> NoNode, cache |-> step.cache]
                      ELSE With(path_walk(step.node, {}, invocations, k + 1), LAMBDA rest :
                             [exc |-> rest.exc, node |-> rest.node,
                              cache |-> step.cache])))

PubSuffix == <<".", "p", "u", "b">>

\* Wallet.subkey_for_path(path)
subkey_for_path(self, cache, path) ==
    LET force_public == Len(path) >= 4 /\ SubSeq(path, Len(path) - 3, Len(path)) = PubSuffix
        stem == IF force_public THEN SubSeq(path, 1, Len(path) - 4) ELSE path
    IN  With(IF stem = <<>> THEN [exc |-> "none", node |-> self, cache |-> cache]
             ELSE path_walk(self, cache, split_on(stem, "/", -1), 1), LAMBDA walked :
          IF walked.exc # "none" THEN walked
          ELSE IF force_public /\ walked.node.is_private
          THEN With(public_copy(walked.node), LAMBDA copy :
                  [exc |-> copy.exc, node |-> copy.node, cache |-> walked.cache])
          ELSE walked)

\* the texts of range(lo, hi + 1), each followed by prime_char
range_texts(lo, hi, prime_char) ==
    [t \in 1..(IF hi < lo THEN 0 ELSE hi - lo + 1) |-> Dec(lo + t - 1) \o prime_char]

\* range_iterator(the_range) for one r of the_range.split(","): the texts it
\* yields
range_of(r) ==
    IF r = <<>> THEN [exc |-> "IndexError", texts |-> <<>>]
    ELSE LET is_prime == ends_prime(r)
             body == IF is_prime THEN SubSeq(r, 1, Len(r) - 1) ELSE r
             prime_char == IF is_prime THEN <<"p">> ELSE <<>>
         IN  With(split_on(body, "-", 1), LAMBDA ends :
               IF Len(ends) = 1 THEN [exc |-> "none", texts |-> <<body \o prime_char>>]
               ELSE With(int(ends[1]), LAMBDA low :
                      IF low.exc # "none" THEN [exc |-> low.exc, texts |-> <<>>]
                      ELSE With(int(ends[Len(ends)]), LAMBDA high :
                             IF high.exc # "none" THEN [exc |-> high.exc, texts |-> <<>>]
                             ELSE [exc |-> "none",
                                   texts |-> With(from_bytes(Reverse(low.value.mag)), LAMBDA lo :
                                               With(from_bytes(Reverse(high.value.mag)), LAMBDA hi :
                                                 range_texts(lo, hi, prime_char)))])))

\* range_iterator(the_range): the texts of all r, in order
RECURSIVE range_iterator(_, _)
range_iterator(rs, k) ==
    IF k > Len(rs) THEN [exc |-> "none", texts |-> <<>>]
    ELSE With(range_of(rs[k]), LAMBDA first :
           IF first.exc # "none" THEN first
           ELSE With(range_iterator(rs, k + 1), LAMBDA rest :
                  IF rest.exc # "none" THEN rest
                  ELSE [exc |-> "none", texts |-> first.texts \o rest.texts]))

\* itertools.product of the texts of two iterators, joined with "/"
product(here, rest) ==
    Concat([a \in 1..Len(here) |->
               [b \in 1..Len(rest) |-> here[a] \o <<"/">> \o rest[b]]])

\* itertools.product(*iterators) joined with "/": the paths of
\* subkey_iterator for the components from the k-th on
RECURSIVE subkey_iterator(_, _)
subkey_iterator(components, k) ==
    With(range_iterator(split_on(components[k], ",", -1), 1), LAMBDA here :
      IF here.exc # "none" THEN here
      ELSE IF k = Len(components) THEN here
      ELSE With(subkey_iterator(components, k + 1), LAMBDA rest :
             IF rest.exc # "none" THEN rest
             ELSE [exc |-> "none", texts |-> product(here.texts, rest.texts)]))

\* a generator: the nodes it has yielded and the exception that ended it
Yielded(exc, nodes, cache) == [exc |-> exc, nodes |-> nodes, cache |-> cache]

\* the for loop of subkeys_for_path over the paths from the k-th on
RECURSIVE subkeys_from(_, _, _, _, _)
subkeys_from(self, cache, paths, k, nodes) ==
    IF k > Len(paths) THEN Yielded("none", nodes, cache)
    ELSE With(subkey_for_path(self, cache, paths[k]), LAMBDA one :
           IF one.exc # "none" THEN Yielded(one.exc, nodes, one.cache)
           ELSE subkeys_from(self, one.cache, paths, k + 1, Append(nodes, one.node)))

\* list(Wallet.subkeys_for_path(path))
subkeys_for_path(self, cache, path) ==
    IF path = <<>> THEN Yielded("none", <<self>>, cache)
    ELSE With(subkey_iterator(split_on(path, "/", -1), 1), LAMBDA paths :
           IF paths.exc # "none" THEN Yielded(paths.exc, <<>>, cache)
           ELSE subkeys_from(self, cache, paths.texts, 1, <<>>))

\* the for loop of children from the index i on
RECURSIVE children_from(_, _, _, _, _, _)
children_from(self, cache, i, last, include_prime, nodes) ==
    IF i > last THEN Yielded("none", nodes, cache)
    ELSE With(subkey(self, cache, FromInt(i), FALSE, "None"), LAMBDA plain :
           IF plain.exc # "none" THEN Yielded(plain.exc, nodes, plain.cache)
           ELSE IF ~include_prime
           THEN children_from(self, plain.cache, i + 1, last, include_prime,
                              Append(nodes, plain.node))
           ELSE With(subkey(self, plain.cache, FromInt(i), TRUE, "None"), LAMBDA prime :
                  IF prime.exc # "none"
                  THEN Yielded(prime.exc, Append(nodes, plain.node), prime.cache)
                  ELSE children_from(self, prime.cache, i + 1, last, include_prime,
                                     nodes \o <<plain.node, prime.node>>)))

\* list(Wallet.children(max_level, start_index, include_prime))
children(self, cache, max_level, start_index, include_prime) ==
    children_from(self, cache, start_index, max_level + start_index, include_prime, <<>>)

----------------------------------------------------------------------------
(* The wallet as a state machine: a caller holds a node, calls one of its  *)
(* methods, and goes on with the node or with a node the call returned     *)

\* the number of calls the caller makes in a row
MaxCalls == 2

\* child indices: 0, 7, -1, -2^31 and -2^31 - 1
Indices ==
    { FromInt(0), FromInt(7), FromInt(-1),
      PyInt(TRUE, <<128, 0, 0, 0>>), PyInt(TRUE, <<128, 0, 0, 1>>) }

Paths ==
    { <<>>,
      <<"0">>,
      <<"0", "/", "1">>,
      <<"1", "p">>,
      <<"-", "1">>,
      <<"0", ".", "p", "u", "b">>,
      <<"0", "/", "1", "p", ".", "p", "u", "b">>,
      <<"0", "/", "/", "1">>,
      <<"x">>,
      <<"-", "2", "1", "4", "7", "4", "8", "3", "6", "4", "9">>,
      <<".", "p", "u", "b">>,
      <<"7">> }

RangePaths ==
    { <<>>,
      <<"0", "-", "1">>,
      <<"0", ",", "1", "p", "/", "1">>,
      <<"0", "-", "1", "p">>,
      <<"-", "1">>,
      <<"1", "-", "0">>,
      <<"0", ",", ",", "1">>,
      <<"0", "-", "1", ".", "p", "u", "b">>,
      <<"1", "-", "x">>,
      <<"0", "/", "0", "-", "1">> }

NoCall == [op |-> "none", args |-> <<>>, exc |-> "none", nodes |-> <<>>]

WalletIdle ==
    /\ token = NoToken
    /\ data_list = <<>>
    /\ stack = <<>>
    /\ flags = {}
    /\ expected_hash_type = None
    /\ script = <<>>
    /\ tmp_script = <<>>

\* the caller holds the master node, private or stripped of its private part
InitWallet ==
    /\ WalletIdle
    /\ phase = "held"
    /\ pc = 0
    /\ outcome = NoCall
    /\ \E is_private \in BOOLEAN :
          entry = [node |-> Node(is_private, <<>>), cache |-> {},
                   public_since |-> ~is_private, master_private |-> is_private]

\* the nodes the caller can call next: the one it called last, and the ones
\* that call returned
Receivers == {entry.node} \cup Elems(outcome.nodes)

\* the subkey_cache of a node the caller turns to
CacheOf(self) == IF self = entry.node THEN entry.cache ELSE {}

\* the call op(args) on self has returned or yielded nodes and ended with exc
CallOn(self, op, args, exc, nodes, cache) ==
    /\ pc < MaxCalls
    /\ pc' = pc + 1
    /\ outcome' = [op |-> op, args |-> args, exc |-> exc, nodes |-> nodes]
    /\ entry' = [node |-> self, cache |-> cache,
                 public_since |-> entry.public_since \/ ~self.is_private,
                 master_private |-> entry.master_private]
    /\ phase' = "called"
    /\ UNCHANGED <<script, token, data_list, stack, flags, expected_hash_type,
                   tmp_script>>

One(result) == IF result.exc = "none" THEN <<result.node>> ELSE <<>>

PublicCopy ==
    \E self \in Receivers :
        LET r == public_copy(self)
        IN  CallOn(self, "public_copy", <<>>, r.exc, One(r), CacheOf(self))

Subkey ==
    \E self \in Receivers, i \in Indices, is_prime \in BOOLEAN,
       as_private \in {"None", "True", "False"} :
        /\ LET r == subkey(self, CacheOf(self), i, is_prime, as_private)
           IN  CallOn(self, "subkey", <<i, is_prime, as_private>>, r.exc, One(r), r.cache)

SubkeyForPath ==
    \E self \in Receivers, path \in Paths :
        /\ LET r == subkey_for_path(self, CacheOf(self), path)
           IN  CallOn(self, "subkey_for_path", <<path>>, r.exc, One(r), r.cache)

SubkeysForPath ==
    \E self \in Receivers, path \in RangePaths :
        /\ LET r == subkeys_for_path(self, CacheOf(self), path)
           IN  CallOn(self, "subkeys_for_path", <<path>>, r.exc, r.nodes, r.cache)

Children ==
    \E self \in Receivers, max_level \in 0..1, start_index \in {-1, 6},
       include_prime \in BOOLEAN :
        /\ LET r == children(self, CacheOf(self), max_level, start_index, include_prime)
           IN  CallOn(self, "children", <<max_level, start_index, include_prime>>,
                      r.exc, r.nodes, r.cache)

NextWallet == PublicCopy \/ Subkey \/ SubkeyForPath \/ SubkeysForPath \/ Children

SpecWallet == InitWallet /\ [][NextWallet]_vars

----------------------------------------------------------------------------
(* Claims about public wallet nodes *)

\* the node the last call was made on is public
OnPublicNode == pc >= 1 /\ ~entry.node.is_private

\* the last call asked a public node for a prime child
PrimeRequest ==
    /\ OnPublicNode
    /\ outcome.op = "subkey"
    /\ (outcome.args[2] \/ outcome.args[1].neg)

\* the last call asked a public node for a private child
PrivateRequest ==
    /\ OnPublicNode
    /\ outcome.op = "subkey"
    /\ outcome.args[3] = "True"

\* nothing private came out of a node that was public, or came out of one
NothingPrivate ==
    entry.public_since =>
        /\ ~entry.node.is_private
        /\ \A k \in 1..Len(outcome.nodes) : ~outcome.nodes[k].is_private

\* C22 as stated: once a node is public, no sequence of calls of subkey,
\* subkey_for_path, subkeys_for_path, children and public_copy returns a
\* private node; a request for a prime child raises
\* PublicPrivateMismatchError, a request with as_private true fails.
C22_PublicStaysPublic ==
    /\ NothingPrivate
    /\ PrimeRequest => outcome.exc = "PublicPrivateMismatchError"
    /\ PrivateRequest => outcome.exc # "none"

\* the index is below -2^31, which struct.pack(">l", i) does not take
BelowInt32(i) == i.neg /\ BigLess(<<128, 0, 0, 0>>, i.mag)

\* C22, amended: once a node is public, no sequence of calls returns a
\* private node; a request for a prime child raises
\* PublicPrivateMismatchError, or struct.error when the index is below -2^31;
\* a request with as_private true fails.
C22_PublicStaysPublicInRange ==
    /\ NothingPrivate
    /\ PrimeRequest =>
           outcome.exc = (IF BelowInt32(outcome.args[1]) THEN "struct.error"
                          ELSE "PublicPrivateMismatchError")
    /\ PrivateRequest => outcome.exc # "none"

\* the private master was stripped by public_copy and the copy asked for the
\* prime child 0
C22_Witness ==
    /\ entry.master_private
    /\ pc = 2
    /\ PrimeRequest
    /\ entry.node = Node(FALSE, <<>>)
    /\ outcome.args = <<FromInt(0), TRUE, "None">>
    /\ outcome.exc = "PublicPrivateMismatchError"
    /\ outcome.nodes = <<>>

----------------------------------------------------------------------------
(* services/tx_db.py: TxDb                                                 *)
(* A transaction is its hash. get(key) opens only the files named for key, *)
(* so a cache directory is what it holds under that one name.              *)

\* the number of directories in read_only_paths
MaxPaths == 1
\* the number of lookup methods
MaxMethods == 2
\* the number of calls made on the TxDb
MaxOps == 2

\* the hash that is asked for, and another one
Hashes == {"key", "other"}

\* what is at <base_dir>/<name of key>_tx.bin: nothing; a file open() refuses
\* with IOError; a file that ends before the transaction does, on which
\* Tx.parse raises an error of unpacking; a file holding the transaction of a
\* hash
Absent == [kind |-> "absent", hash |-> "none"]
Unreadable == [kind |-> "unreadable", hash |-> "none"]
Truncated == [kind |-> "truncated", hash |-> "none"]
TxFile(h) == [kind |-> "tx", hash |-> h]
Files == {Absent, Unreadable, Truncated} \cup {TxFile(h) : h \in Hashes}

\* what a lookup method does when called with key: returns None, raises an
\* Exception, or returns the transaction of a hash
MethodNone == [kind |-> "None", hash |-> "none"]
MethodRaises == [kind |-> "raise", hash |-> "none"]
MethodTx(h) == [kind |-> "tx", hash |-> h]
Methods == {MethodNone, MethodRaises} \cup {MethodTx(h) : h \in Hashes}

\* TxDb.__init__: the writable cache path is appended to read_only_paths
new_db(lookup_methods, read_only_paths, writable_cache_path, configured) ==
    [lookup_methods |-> lookup_methods,
     dirs |-> IF configured THEN Append(read_only_paths, writable_cache_path)
              ELSE read_only_paths,
     writable |-> configured]

\* TxDb.paths_for_hash: the directories, in list order, that have the file
RECURSIVE paths_for_hash(_, _)
paths_for_hash(dirs, k) ==
    IF k > Len(dirs) THEN <<>>
    ELSE IF dirs[k] # Absent
         THEN <<k>> \o paths_for_hash(dirs, k + 1)
         ELSE paths_for_hash(dirs, k + 1)

\* put does nothing without a writable cache path
cache_configured_never(self) == FALSE
cache_configured(self) == self.writable

\* TxDb.put(tx); write is what the file system does: "ok", IOError from open
\* ("open"), or IOError from tx.stream after open has emptied the file
\* ("stream"). The IOError is swallowed. The file is named for tx.hash().
put(self, tx, write) ==
    IF ~cache_configured(self) THEN [dirs |-> self.dirs, write |-> "none"]
    ELSE LET w == Len(self.dirs)
             file == CASE write = "ok" -> TxFile(tx)
                       [] write = "open" -> self.dirs[w]
                       [] OTHER -> Truncated
         IN  [dirs |-> IF tx = "key" THEN [self.dirs EXCEPT ![w] = file]
                       ELSE self.dirs,
              write |-> write]

Got(exc, value, source, index, calls, dirs, write) ==
    [exc |-> exc, value |-> value, source |-> source, index |-> index,
     calls |-> calls, dirs |-> dirs, write |-> write]

\* TxDb.get, second loop: the lookup methods from the k-th on
RECURSIVE get_lookup(_, _, _)
get_lookup(self, write, k) ==
    IF k > Len(self.lookup_methods)
    THEN Got("none", "None", "none", 0, k - 1, self.dirs, "none")
    ELSE IF self.lookup_methods[k] = MethodTx("key")
         THEN LET stored == put(self, "key", write)
              IN  Got("none", "key", "lookup", k, k, stored.dirs, stored.write)
         ELSE get_lookup(self, write, k + 1)

\* Tx.parse raised something that is no IOError, which the except clause of
\* the first loop does not take
parse_error_aborts(file) == file = Truncated

\* TxDb.get, first loop: the files from the k-th of paths on
RECURSIVE get_paths(_, _, _, _)
get_paths(self, paths, write, k) ==
    IF k > Len(paths) THEN get_lookup(self, write, 1)
    ELSE LET file == self.dirs[paths[k]]
         IN  IF file = Unreadable
             THEN get_paths(self, paths, write, k + 1)
             ELSE IF parse_error_aborts(file)
             THEN Got("struct.error", "None", "none", paths[k], 0, self.dirs, "none")
             ELSE IF file = TxFile("key")
             THEN Got("none", "key", "path", paths[k], 0, self.dirs, "none")
             ELSE get_paths(self, paths, write, k + 1)

\* TxDb.get(key)
get(self, write) == get_paths(self, paths_for_hash(self.dirs, 1), write, 1)

\* TxDb.__setitem__(key, val)
setitem(self, key, val, write) ==
    IF val # key
    THEN Got("ValueError", "None", "none", 0, 0, self.dirs, "none")
    ELSE LET stored == put(self, val, write)
         IN  Got("none", "None", "none", 0, 0, stored.dirs, stored.write)

----------------------------------------------------------------------------
(* The TxDb as a state machine: a caller makes get(key) and db[key] = tx   *)
(* calls                                                                   *)

NoOp ==
    [op |-> "none", key |-> "none", val |-> "none", before |-> <<>>,
     fetched |-> FALSE,
     result |-> Got("none", "None", "none", 0, 0, <<>>, "none")]

\* any lookup methods and directories; the writable one may hold files of
\* earlier runs
InitTxDb ==
    /\ WalletIdle
    /\ phase = "txdb"
    /\ pc = 0
    /\ outcome = NoOp
    /\ \E n \in 0..MaxPaths, m \in 0..MaxMethods :
         \E read_only_paths \in [1..n -> Files],
            lookup_methods \in [1..m -> Methods],
            writable_cache_path \in Files, configured \in BOOLEAN :
              /\ ~configured => writable_cache_path = Absent
              /\ entry = [db |-> new_db(lookup_methods, read_only_paths,
                                        writable_cache_path, configured),
                          fetched |-> FALSE]

\* the file system fails only where it is written
Written(result, write) ==
    result.write = write \/ (result.write = "none" /\ write = "ok")

\* the call op has ended with result; fetched says that a get obtained the
\* transaction from a lookup method with a writable cache path configured
Done(op, key, val, result) ==
    /\ pc < MaxOps
    /\ pc' = pc + 1
    /\ outcome' = [op |-> op, key |-> key, val |-> val,
                   before |-> entry.db.dirs, fetched |-> entry.fetched,
                   result |-> result]
    /\ entry' = [db |-> [entry.db EXCEPT !.dirs = result.dirs],
                 fetched |-> entry.fetched
                             \/ (result.source = "lookup" /\ entry.db.writable)]
    /\ phase' = "called"
    /\ UNCHANGED <<script, token, data_list, stack, flags, expected_hash_type,
                   tmp_script>>

Get ==
    \E write \in {"ok", "open", "stream"} :
        LET result == get(entry.db, write)
        IN  Written(result, write) /\ Done("get", "key", "none", result)

SetItem ==
    \E key \in Hashes, val \in Hashes, write \in {"ok", "open", "stream"} :
        LET result == setitem(entry.db, key, val, write)
        IN  Written(result, write) /\ Done("setitem", key, val, result)

NextTxDb == Get \/ SetItem

SpecTxDb == InitTxDb /\ [][NextTxDb]_vars

----------------------------------------------------------------------------
(* Claims about TxDb *)

\* the last call was get(key)
GetRan == pc >= 1 /\ outcome.op = "get"

\* before the call the k-th directory held the transaction of the key
CachedAt(k) == outcome.before[k] = TxFile("key")

\* the k-th lookup method returns the transaction of the key
FoundBy(k) == entry.db.lookup_methods[k] = MethodTx("key")

\* get took the first source, in the order of the directories and then of the
\* lookup methods, that has the transaction, and None when none has it
FirstSource ==
    LET r == outcome.result
        paths == 1..Len(outcome.before)
        methods == 1..Len(entry.db.lookup_methods)
    IN  /\ r.value \in {"None", "key"}
        /\ r.value = "key" <=> r.source \in {"path", "lookup"}
        /\ r.source = "path" =>
              /\ r.index \in paths /\ CachedAt(r.index)
              /\ \A i \in 1..(r.index - 1) : ~CachedAt(i)
              /\ r.calls = 0
        /\ r.source = "lookup" =>
              /\ \A i \in paths : ~CachedAt(i)
              /\ r.index \in methods /\ FoundBy(r.index)
              /\ \A i \in 1..(r.index - 1) : ~FoundBy(i)
              /\ r.calls = r.index
        /\ r.value = "None" =>
              /\ \A i \in paths : ~CachedAt(i)
              /\ \A i \in methods : ~FoundBy(i)
              /\ r.calls = Len(entry.db.lookup_methods)

\* C28: get(key) returns None or a transaction of hash key for every state of
\* the cache directories and every behaviour of the lookup methods; a file or
\* a lookup result of another hash is never returned; an IOError at a file or
\* an exception of a lookup method makes get try the next source, cache paths
\* first, then the lookup methods in list order; None is returned only after
\* all sources failed.
C28_GetReturnsNoneOrMatch ==
    GetRan => (outcome.result.exc = "none" /\ FirstSource)

\* C29 as stated: with a writable cache path, a transaction get(key) obtains
\* from a lookup method is in the writable cache when get returns, and every
\* later get(key) is answered from the cache without a call of a lookup
\* method; db[key] = tx with another hash raises ValueError and stores
\* nothing.
C29_WriteThrough ==
    LET r == outcome.result
    IN  /\ (GetRan /\ r.source = "lookup" /\ entry.db.writable) =>
               entry.db.dirs[Len(entry.db.dirs)] = TxFile("key")
        /\ (GetRan /\ outcome.fetched) =>
               (r.exc = "none" /\ r.source = "path" /\ r.calls = 0)
        /\ (outcome.op = "setitem" /\ outcome.key # outcome.val) =>
               (r.exc = "ValueError" /\ entry.db.dirs = outcome.before)

\* C29, amended: with a writable cache path, get(key) calls put with the
\* transaction it obtains from a lookup method and returns it: the file holds
\* the transaction when writing raises no IOError, is left as it was when
\* open raises it and is cut short when tx.stream raises it; while the file
\* of the writable cache holds the transaction, get(key) calls no lookup
\* method (it returns the transaction from a cache file or raises on a file
\* that does not parse); db[key] = tx with another hash raises ValueError and
\* stores nothing.
C29_WriteThroughUnlessIOError ==
    LET r == outcome.result
        w == Len(entry.db.dirs)
    IN  /\ (GetRan /\ r.source = "lookup" /\ entry.db.writable) =>
              /\ r.exc = "none" /\ r.value = "key"
              /\ r.write \in {"ok", "open", "stream"}
              /\ r.write = "ok" => entry.db.dirs[w] = TxFile("key")
              /\ r.write = "open" => entry.db.dirs = outcome.before
              /\ r.write = "stream" => entry.db.dirs[w] = Truncated
              /\ \A i \in 1..(w - 1) : entry.db.dirs[i] = outcome.before[i]
        /\ (GetRan /\ entry.db.writable /\ CachedAt(w)) =>
              /\ r.calls = 0
              /\ entry.db.dirs = outcome.before
              /\ \/ r.exc = "none" /\ r.source = "path" /\ r.value = "key"
                 \/ r.exc = "struct.error"
        /\ (outcome.op = "setitem" /\ outcome.key # outcome.val) =>
               (r.exc = "ValueError" /\ entry.db.dirs = outcome.before)

\* a first get fetched the transaction from a lookup method and stored it, the
\* second get is answered from the file in the writable cache
C29_Witness ==
    /\ pc = 2
    /\ GetRan
    /\ outcome.fetched
    /\ entry.db.writable
    /\ Len(entry.db.lookup_methods) >= 1
    /\ FoundBy(1)
    /\ CachedAt(Len(outcome.before))
    /\ outcome.result.source = "path"
    /\ outcome.result.index = Len(outcome.before)
    /\ outcome.result.calls = 0

====
